---- MODULE Spec2Model ----
(***************************************************************************)
(* A model of the AERA chat backend (backend/main.py and backend/utils):   *)
(* the crisis guard, the signal collector, the tone resolver, the prompt   *)
(* composer and the /chat handler with its no-memory fallback.             *)
(*                                                                         *)
(* Conventions.  A Python str that the code only stores, compares or       *)
(* concatenates is a TLA+ string; a str that the code searches (the user   *)
(* message) is a sequence of one-character strings.  Optional values are   *)
(* sequences of length at most one: None is << >> and a present value v    *)
(* is << v >>.  A dict is a function from its keys; {} is EmptyDict.       *)
(* A calendar day is a natural number.                                     *)
(***************************************************************************)
EXTENDS Integers, Sequences, FiniteSets, TLC

(***************************************************************************)
(* Bounds of the model.                                                    *)
(***************************************************************************)
\* moods drawn for the tone resolver: 1..MaxMood (the scale of a check-in)
MaxMood == 10
\* skipped tasks counted in the last 72 hours by the resolver's inputs
MaxSkips == 6
\* the greatest mood a stored check-in holds in the chat specification
MaxStoredMood == 4
\* skipped tasks younger than 24 hours in the chat specification
MaxSkips24 == 1
\* calendar days the server clock runs through: 0..MaxDay
MaxDay == 1
\* chat requests served in one behaviour
MaxTurns == 2
\* failed calls to the store and to the completion gateway in one behaviour
MaxFaults == 1

None == << >>
Some(v) == << v >>
IsNone(o) == o = << >>
Get(o) == o[1]

EmptyDict == [k \in {} |-> 0]
\* dict.get(key, default)
DictGet(d, key, default) == IF key \in DOMAIN d THEN d[key] ELSE default

(***************************************************************************)
(* str.lower() and the `in` operator on str                                *)
(***************************************************************************)
UpperCase ==
    <<"A","B","C","D","E","F","G","H","I","J","K","L","M","N","O","P","Q","R","S","T","U","V","W","X","Y","Z">>
LowerCase ==
    <<"a","b","c","d","e","f","g","h","i","j","k","l","m","n","o","p","q","r","s","t","u","v","w","x","y","z">>

LowerChar(c) ==
    IF \E i \in 1..Len(UpperCase) : UpperCase[i] = c
    THEN LowerCase[CHOOSE i \in 1..Len(UpperCase) : UpperCase[i] = c]
    ELSE c

lower(s) == [i \in 1..Len(s) |-> LowerChar(s[i])]

\* needle in haystack
IsSubstring(needle, haystack) ==
    \E i \in 0..(Len(haystack) - Len(needle)) :
        \A j \in 1..Len(needle) : haystack[i + j] = needle[j]

(***************************************************************************)
(* Crisis guard                                                            *)
(***************************************************************************)
CRISIS_KEYWORDS ==
    { <<"s","u","i","c","i","d","e">>,
      <<"k","i","l","l"," ","m","y","s","e","l","f">>,
      <<"e","n","d"," ","i","t"," ","a","l","l">>,
      <<"s","e","l","f","-","h","a","r","m">>,
      <<"d","o","n","'","t"," ","w","a","n","t"," ","t","o"," ","l","i","v","e">>,
      <<"w","a","n","t"," ","t","o"," ","d","i","e">> }

CRISIS_RESPONSE ==
    "I hear you, and I'm worried. Please reach out to someone who can help right now:\n\nNational Suicide Prevention Lifeline: 988 (US)\nCrisis Text Line: Text HOME to 741741\n\nYou matter. Please talk to someone."

contains_crisis_signal_case_sensitive(message) ==
    \E keyword \in CRISIS_KEYWORDS : IsSubstring(keyword, message)

contains_crisis_signal(message) ==
    LET message_lower == lower(message)
    IN  \E keyword \in CRISIS_KEYWORDS : IsSubstring(keyword, message_lower)

(***************************************************************************)
(* Tone resolver (utils/tone_control.py)                                   *)
(***************************************************************************)
ALLOWED_TONES == {"soft", "balanced", "strict_clean", "strict_raw"}

LOW_MOOD_REASON == "Low mood state (mood < 4)"
LATE_NIGHT_REASON == "Late-night vulnerability window + low energy"
RAW_MOOD_REASON == "Mood too low for Raw mode (< 4)"
HighAvoidanceReason(n) ==
    "High avoidance pattern (" \o ToString(n) \o " skips in 3 days)"

\* The resolver with one of its conditions changed, `slip` naming the change:
\*   "soft_not_exempt"  rule 2 drops its test of the requested tone
\*   "skips_first"      rule 3 is tried before rule 2
\*   "skips_above_5"    rule 3 compares with > instead of >=
\*   "late_below_4"     rule 4 compares the mood with 4 instead of 5
\*   "none_is_low"      rule 4 takes a missing mood for a low one
\*   "skips_any_tone"   rule 3 drops its test of the requested tone
ToneRulesWith(slip, requested_tone, behavior_signals, recent_mood, time_ctx) ==
    LET skips == DictGet(behavior_signals, "task_skips_72h", 0)
        rule2 == /\ ~IsNone(recent_mood) /\ Get(recent_mood) < 4
                 /\ \/ slip = "soft_not_exempt"
                    \/ requested_tone \in {"strict_raw", "strict_clean", "balanced"}
        rule3 == /\ IF slip = "skips_above_5" THEN skips > 5 ELSE skips >= 5
                 /\ \/ slip = "skips_any_tone"
                    \/ requested_tone \in {"strict_raw", "strict_clean"}
        rule4 == /\ DictGet(time_ctx, "is_late_night", FALSE)
                 /\ IF slip = "none_is_low"
                    THEN IsNone(recent_mood) \/ Get(recent_mood) < 5
                    ELSE /\ ~IsNone(recent_mood)
                         /\ Get(recent_mood) < (IF slip = "late_below_4" THEN 4 ELSE 5)
                 /\ requested_tone \in {"strict_raw", "strict_clean"}
    IN  IF slip = "skips_first" /\ rule3
        THEN << "balanced", Some(HighAvoidanceReason(skips)) >>
        ELSE IF rule2 THEN << "soft", Some(LOW_MOOD_REASON) >>
        ELSE IF rule3 THEN << "balanced", Some(HighAvoidanceReason(skips)) >>
        ELSE IF rule4 THEN << "balanced", Some(LATE_NIGHT_REASON) >>
        ELSE << requested_tone, None >>

enforce_tone_downgrade_soft_not_exempt(requested_tone, behavior_signals, recent_mood, time_ctx) ==
    ToneRulesWith("soft_not_exempt", requested_tone, behavior_signals, recent_mood, time_ctx)
enforce_tone_downgrade_skips_first(requested_tone, behavior_signals, recent_mood, time_ctx) ==
    ToneRulesWith("skips_first", requested_tone, behavior_signals, recent_mood, time_ctx)
enforce_tone_downgrade_skips_above_5(requested_tone, behavior_signals, recent_mood, time_ctx) ==
    ToneRulesWith("skips_above_5", requested_tone, behavior_signals, recent_mood, time_ctx)
enforce_tone_downgrade_late_below_4(requested_tone, behavior_signals, recent_mood, time_ctx) ==
    ToneRulesWith("late_below_4", requested_tone, behavior_signals, recent_mood, time_ctx)
enforce_tone_downgrade_none_is_low(requested_tone, behavior_signals, recent_mood, time_ctx) ==
    ToneRulesWith("none_is_low", requested_tone, behavior_signals, recent_mood, time_ctx)
enforce_tone_downgrade_skips_any_tone(requested_tone, behavior_signals, recent_mood, time_ctx) ==
    ToneRulesWith("skips_any_tone", requested_tone, behavior_signals, recent_mood, time_ctx)

\* returns << enforced_tone, reason >>
enforce_tone_downgrade(requested_tone, behavior_signals, recent_mood, time_ctx) ==
    IF /\ ~IsNone(recent_mood) /\ Get(recent_mood) < 4
       /\ requested_tone \in {"strict_raw", "strict_clean", "balanced"}
    THEN << "soft", Some(LOW_MOOD_REASON) >>
    ELSE IF /\ DictGet(behavior_signals, "task_skips_72h", 0) >= 5
            /\ requested_tone \in {"strict_raw", "strict_clean"}
    THEN << "balanced", Some(HighAvoidanceReason(behavior_signals["task_skips_72h"])) >>
    ELSE IF /\ DictGet(time_ctx, "is_late_night", FALSE)
            /\ ~IsNone(recent_mood) /\ Get(recent_mood) < 5
            /\ requested_tone \in {"strict_raw", "strict_clean"}
    THEN << "balanced", Some(LATE_NIGHT_REASON) >>
    ELSE IF /\ requested_tone = "strict_raw"
            /\ ~IsNone(recent_mood) /\ Get(recent_mood) < 4
    THEN << "balanced", Some(RAW_MOOD_REASON) >>
    ELSE << requested_tone, None >>

(***************************************************************************)
(* Time context (utils/realtime_context.py)                                *)
(***************************************************************************)
\* the hours of the user's local clock a turn may read
Hours == {4, 5, 21, 22}

get_time_context(hour) == [is_late_night |-> (hour >= 22 \/ hour <= 4)]

(***************************************************************************)
(* Prompt composer                                                         *)
(***************************************************************************)
GLOBAL_RULES == "GLOBAL RULES (ALWAYS APPLY): ..."
ANTI_HALLUCINATION_GUARD ==
    "CRITICAL RULE:\nNever invent facts, patterns, or past events.\nOnly reference what is explicitly provided in context.\nIf unsure, ask."
GENTLE_MODE == "MODE: GENTLE ..."
BALANCED_MODE == "MODE: BALANCED ..."
DIRECT_MODE == "MODE: DIRECT ..."
RAW_MODE == "MODE: RAW ..."

MODE_CONSTRAINTS ==
    [soft |-> GENTLE_MODE, balanced |-> BALANCED_MODE,
     strict_clean |-> DIRECT_MODE, strict_raw |-> RAW_MODE]

RECURSIVE PatternHintLines(_)
PatternHintLines(ps) ==
    IF ps = << >> THEN ""
    ELSE "- " \o Head(ps).description
         \o (IF Len(ps) > 1 THEN "\n" ELSE "") \o PatternHintLines(Tail(ps))

\* the composer with the pattern hints given in every tone
build_memory_system_prompt_hints_in_every_tone(tone_mode_arg, last_summary, patterns, user_state) ==
    LET tone_mode == IF tone_mode_arg \in ALLOWED_TONES THEN tone_mode_arg ELSE "balanced"
        mode_constraint == DictGet(MODE_CONSTRAINTS, tone_mode, BALANCED_MODE)
        state_line ==
            "[USER STATE]\nEnergy: " \o DictGet(Get(user_state), "energy", "unknown")
            \o ". Momentum: " \o DictGet(Get(user_state), "momentum", "unknown")
            \o ". Emotional load: " \o DictGet(Get(user_state), "emotional_load", "unknown")
            \o "."
    IN  << GLOBAL_RULES, ANTI_HALLUCINATION_GUARD, mode_constraint >>
        \o (IF ~IsNone(user_state) /\ DOMAIN Get(user_state) # {}
            THEN << state_line >> ELSE << >>)
        \o (IF ~IsNone(last_summary) /\ Get(last_summary) # ""
            THEN << "[RECENT CONTEXT]\n" \o Get(last_summary) >> ELSE << >>)
        \o (IF patterns # << >>
            THEN << "[OBSERVED PATTERNS]\n"
                    \o PatternHintLines(SubSeq(patterns, 1, IF Len(patterns) < 3 THEN Len(patterns) ELSE 3)) >>
            ELSE << >>)

\* str.join with every part followed by the separator
RECURSIVE join_trailing_separator(_, _)
join_trailing_separator(sep, parts) ==
    IF parts = << >> THEN ""
    ELSE Head(parts) \o sep \o join_trailing_separator(sep, Tail(parts))

\* sep.join(parts)
RECURSIVE join(_, _)
join(sep, parts) ==
    IF parts = << >> THEN ""
    ELSE IF Len(parts) = 1 THEN Head(parts)
    ELSE Head(parts) \o sep \o join(sep, Tail(parts))

\* the list of sections that "\n\n".join(sections) concatenates
build_memory_system_prompt(tone_mode_arg, last_summary, patterns, user_state) ==
    LET tone_mode == IF tone_mode_arg \in ALLOWED_TONES THEN tone_mode_arg ELSE "balanced"
        mode_constraint == DictGet(MODE_CONSTRAINTS, tone_mode, BALANCED_MODE)
        state_line ==
            "[USER STATE]\nEnergy: " \o DictGet(Get(user_state), "energy", "unknown")
            \o ". Momentum: " \o DictGet(Get(user_state), "momentum", "unknown")
            \o ". Emotional load: " \o DictGet(Get(user_state), "emotional_load", "unknown")
            \o "."
    IN  << GLOBAL_RULES, ANTI_HALLUCINATION_GUARD, mode_constraint >>
        \o (IF ~IsNone(user_state) /\ DOMAIN Get(user_state) # {}
            THEN << state_line >> ELSE << >>)
        \o (IF ~IsNone(last_summary) /\ Get(last_summary) # ""
            THEN << "[RECENT CONTEXT]\n" \o Get(last_summary) >> ELSE << >>)
        \o (IF patterns # << >> /\ tone_mode # "soft"
            THEN << "[OBSERVED PATTERNS]\n"
                    \o PatternHintLines(SubSeq(patterns, 1, IF Len(patterns) < 3 THEN Len(patterns) ELSE 3)) >>
            ELSE << >>)

RESPONSE_RULES ==
    "RESPONSE RULES:\n- 1-3 sentences MAX\n- Max 1 question\n- No lists, no emojis\n- Sound human, not AI\n- Reference behavior, not identity"

(***************************************************************************)
(* Raw cooldown                                                            *)
(***************************************************************************)
COOLDOWN_REASON == "Max 1 strict_raw message per day reached. Using balanced."

\* can_use_strict_raw without the reset of the count on a new day
can_use_strict_raw_without_reset(read_ok, rows, now_day) ==
    IF ~read_ok THEN << TRUE, "" >>
    ELSE IF rows = << >> THEN << TRUE, "" >>
    ELSE IF rows[1].strict_raw_count_today >= 1 THEN << FALSE, COOLDOWN_REASON >>
    ELSE << TRUE, "" >>

\* can_use_strict_raw over the outcome of its read: the rows selected from
\* conversation_contexts (a sequence, empty when the user has no row), or a
\* failed read.  Returns << allowed, reason >>.
can_use_strict_raw(read_ok, rows, now_day) ==
    IF ~read_ok THEN << TRUE, "" >>
    ELSE IF rows = << >> THEN << TRUE, "" >>
    ELSE LET ctx == rows[1]
             last_raw == ctx.last_strict_raw_at
             count_today ==
                 IF ~IsNone(last_raw) /\ Get(last_raw) < now_day
                 THEN 0 ELSE ctx.strict_raw_count_today
         IN  IF count_today >= 1 THEN << FALSE, COOLDOWN_REASON >>
             ELSE << TRUE, "" >>

(***************************************************************************)
(* Signal collector (utils/behavior_tracking.py)                           *)
(***************************************************************************)
\* get_session_gap: hours since the newest stored message, 24 without one
get_session_gap(read_ok, msgs, now_day) ==
    IF read_ok /\ msgs # << >>
    THEN 24 * (now_day - msgs[Len(msgs)].created_at)
    ELSE 24

\* count_task_skips: the number of rows the query returns, 0 when it fails
count_task_skips(read_ok, n_rows) == IF read_ok THEN n_rows ELSE 0

\* detect_rapid_opens: more than 4 messages in the last hour
detect_rapid_opens(read_ok, msgs, now_day) ==
    IF read_ok
    THEN Cardinality({i \in 1..Len(msgs) : msgs[i].created_at = now_day}) > 4
    ELSE FALSE

get_user_behavior_signals(gap, skips_24h, skips_72h, rapid_opens) ==
    [session_gap_hours |-> gap,
     task_skips_24h |-> skips_24h,
     task_skips_72h |-> skips_72h,
     rapid_opens_detected |-> rapid_opens,
     is_fresh_session |-> gap > 4]

\* the "User State Signals" lines of build_realtime_context_block
RealtimeSignals(time_ctx, behavior_signals) ==
    (IF time_ctx.is_late_night THEN << "Late-night usage" >> ELSE << >>)
    \o (IF DictGet(behavior_signals, "task_skips_24h", 0) > 2
        THEN << ToString(behavior_signals.task_skips_24h) \o " skipped tasks in last 24h" >>
        ELSE << >>)
    \o (IF DictGet(behavior_signals, "task_skips_72h", 0) > 4
        THEN << ToString(behavior_signals.task_skips_72h) \o " task skips in last 3 days" >>
        ELSE << >>)
    \o (IF DictGet(behavior_signals, "rapid_opens_detected", FALSE)
        THEN << "Repeated opens without action" >> ELSE << >>)
    \o (IF DictGet(behavior_signals, "session_gap_hours", 0) < 1
        THEN << "Frequent usage pattern" >> ELSE << >>)
    \o (IF DictGet(behavior_signals, "is_fresh_session", FALSE)
        THEN << "Fresh session (4+ hours since last use)" >> ELSE << >>)

RECURSIVE SignalLines(_)
SignalLines(sigs) ==
    IF sigs = << >> THEN ""
    ELSE "- " \o Head(sigs) \o "\n" \o SignalLines(Tail(sigs))

\* the date, clock, weather and news lines of the block are left out: they
\* come from collaborators that decide nothing in the turn
build_realtime_context_block(time_ctx, behavior_signals) ==
    LET signals == RealtimeSignals(time_ctx, behavior_signals)
    IN  "[REAL-TIME CONTEXT]\nUser State Signals:\n"
        \o (IF signals # << >> THEN SignalLines(signals)
            ELSE "- No significant signals\n")

(***************************************************************************)
(* Derived user state                                                      *)
(***************************************************************************)
RECURSIVE SumField(_, _)
SumField(rows, f) == IF rows = << >> THEN 0 ELSE Head(rows)[f] + SumField(Tail(rows), f)

UNKNOWN_STATE == [energy |-> "unknown", momentum |-> "unknown", emotional_load |-> "unknown"]

\* averages are compared without division: sum/n < k  iff  sum < k*n
derive_user_state(read_ok, checkins, events) ==
    IF ~read_ok THEN UNKNOWN_STATE
    ELSE LET n == Len(checkins)
             sum_mood == SumField(checkins, "mood")
             sum_energy == SumField(checkins, "energy")
             completions == events.task_completed
             skips == events.task_skipped
         IN  [energy |->
                 IF n = 0 THEN "unknown"
                 ELSE IF sum_mood + sum_energy < 8 * n THEN "low"
                 ELSE IF sum_mood + sum_energy > 14 * n THEN "high"
                 ELSE "medium",
              momentum |->
                 IF completions + skips = 0 THEN "unknown"
                 ELSE IF completions > skips * 2 THEN "building"
                 ELSE "stalled",
              emotional_load |->
                 IF n >= 2
                 THEN (IF sum_mood < 4 * n THEN "heavy"
                       ELSE IF sum_mood > 7 * n THEN "light" ELSE "medium")
                 ELSE "unknown"]

(***************************************************************************)
(* Stored patterns                                                         *)
(***************************************************************************)
\* confidences are kept in hundredths: 0.4 is 40
MIN_CONFIDENCE == 40

\* load_user_patterns: confidence >= min_confidence, at most 5, [] on error;
\* the stored list is kept in descending order of confidence
load_user_patterns(read_ok, stored, min_confidence) ==
    IF ~read_ok THEN << >>
    ELSE LET keep == SelectSeq(stored, LAMBDA p : p.confidence >= min_confidence)
         IN  SubSeq(keep, 1, IF Len(keep) < 5 THEN Len(keep) ELSE 5)

(***************************************************************************)
(* Response validators.  main.py defines validate_response at line 292,    *)
(* after importing a function of the same name from                        *)
(* utils/response_validator.py at line 19: the later binding is the one    *)
(* chat calls.  Both are modelled; a character outside ASCII is written    *)
(* as the name of its code point ("U+2022").                               *)
(***************************************************************************)
Whitespace == {" ", "\n", "\t"}
Digits == {"0", "1", "2", "3", "4", "5", "6", "7", "8", "9"}

RECURSIVE lstrip(_)
lstrip(s) == IF s # << >> /\ Head(s) \in Whitespace THEN lstrip(Tail(s)) ELSE s

RECURSIVE rstrip(_)
rstrip(s) ==
    IF s # << >> /\ s[Len(s)] \in Whitespace THEN rstrip(SubSeq(s, 1, Len(s) - 1)) ELSE s

\* str.strip()
strip(s) == rstrip(lstrip(s))

\* str.split(sep) for a one-character separator
RECURSIVE split(_, _)
split(s, sep) ==
    IF \E i \in 1..Len(s) : s[i] = sep
    THEN LET i == CHOOSE i \in 1..Len(s) : s[i] = sep /\ \A j \in 1..(i - 1) : s[j] # sep
         IN  << SubSeq(s, 1, i - 1) >> \o split(SubSeq(s, i + 1, Len(s)), sep)
    ELSE << s >>

\* str.count(c) for a one-character c
count(s, c) == Cardinality({i \in 1..Len(s) : s[i] = c})

\* len(str.split()): the maximal runs of characters that are not whitespace
word_count(s) ==
    Cardinality({i \in 1..Len(s) :
        s[i] \notin Whitespace /\ (i = 1 \/ s[i - 1] \in Whitespace)})

\* the join of a list of characters into one str
RECURSIVE Str(_)
Str(cs) == IF cs = << >> THEN "" ELSE Head(cs) \o Str(Tail(cs))

\* [s.strip() for s in response.split('.')], the empty ones kept
sentences_keeping_empty(response) ==
    LET parts == split(response, ".")
    IN  [k \in 1..Len(parts) |-> strip(parts[k])]

\* [s.strip() for s in response.split('.') if s.strip()]
sentences(response) ==
    LET parts == split(response, ".")
    IN  SelectSeq([k \in 1..Len(parts) |-> strip(parts[k])], LAMBDA x : x # << >>)

\* the first phrase of the list that occurs in the text, None without one
FirstPhraseIn(phrases, text) ==
    IF \E k \in 1..Len(phrases) : IsSubstring(phrases[k], text)
    THEN Some(phrases[CHOOSE k \in 1..Len(phrases) :
                        /\ IsSubstring(phrases[k], text)
                        /\ \A j \in 1..(k - 1) : ~IsSubstring(phrases[j], text)])
    ELSE None

BANNED_PHRASES ==
    << <<"i","t","'","s"," ","u","n","d","e","r","s","t","a","n","d","a","b","l","e"," ","t","h","a","t">>,
       <<"i","t"," ","s","o","u","n","d","s"," ","l","i","k","e"," ","y","o","u"," ","m","a","y"," ","b","e">>,
       <<"i","t"," ","s","o","u","n","d","s"," ","l","i","k","e"," ","y","o","u","'","r","e"," ","f","e","e","l","i","n","g">>,
       <<"b","a","s","e","d"," ","o","n"," ","w","h","a","t"," ","y","o","u","'","v","e"," ","s","h","a","r","e","d">>,
       <<"a","s"," ","a","n"," ","a","i">>,
       <<"a","s"," ","y","o","u","r"," ","a","i">>,
       <<"i","'","m"," ","h","e","r","e"," ","t","o"," ","h","e","l","p"," ","y","o","u">>,
       <<"i","'","m"," ","h","e","r","e"," ","t","o"," ","s","u","p","p","o","r","t"," ","y","o","u">>,
       <<"y","o","u"," ","s","h","o","u","l","d"," ","c","o","n","s","i","d","e","r">>,
       <<"i","t","'","s"," ","i","m","p","o","r","t","a","n","t"," ","t","o"," ","r","e","m","e","m","b","e","r">>,
       <<"t","a","k","e"," ","c","a","r","e"," ","o","f"," ","y","o","u","r","s","e","l","f">>,
       <<"r","e","m","e","m","b","e","r"," ","t","o"," ","b","e"," ","k","i","n","d"," ","t","o"," ","y","o","u","r","s","e","l","f">>,
       <<"i"," ","u","n","d","e","r","s","t","a","n","d"," ","h","o","w"," ","y","o","u"," ","f","e","e","l">>,
       <<"t","h","a","t"," ","m","u","s","t"," ","b","e"," ","r","e","a","l","l","y">>,
       <<"i"," ","c","a","n"," ","o","n","l","y"," ","i","m","a","g","i","n","e">>,
       <<"l","e","t","'","s"," ","u","n","p","a","c","k"," ","t","h","a","t">>,
       <<"l","e","t","'","s"," ","e","x","p","l","o","r","e"," ","t","h","a","t">>,
       <<"t","h","a","n","k"," ","y","o","u"," ","f","o","r"," ","s","h","a","r","i","n","g">>,
       <<"i"," ","a","p","p","r","e","c","i","a","t","e"," ","y","o","u"," ","s","h","a","r","i","n","g">>,
       <<"t","h","a","t","'","s"," ","a"," ","g","r","e","a","t"," ","q","u","e","s","t","i","o","n">>,
       <<"g","r","e","a","t"," ","q","u","e","s","t","i","o","n">>,
       <<"y","o","u"," ","a","l","w","a","y","s">>,
       <<"y","o","u"," ","n","e","v","e","r">>,
       <<"v","a","l","i","d","a","t","e"," ","y","o","u","r"," ","f","e","e","l","i","n","g","s">>,
       <<"h","o","n","o","r"," ","y","o","u","r"," ","f","e","e","l","i","n","g","s">>,
       <<"h","o","l","d"," ","s","p","a","c","e"," ","f","o","r">>,
       <<"j","o","u","r","n","e","y"," ","o","f"," ","h","e","a","l","i","n","g">>,
       <<"y","o","u","r"," ","f","e","e","l","i","n","g","s"," ","a","r","e"," ","v","a","l","i","d">>,
       <<"a","b","s","o","l","u","t","e","l","y","!">>,
       <<"d","e","f","i","n","i","t","e","l","y","!">>,
       <<"o","f"," ","c","o","u","r","s","e","!">>,
       <<"a","m","a","z","i","n","g","!">>,
       <<"w","o","n","d","e","r","f","u","l","!">> >>

banned_phrases ==
    << <<"i"," ","u","n","d","e","r","s","t","a","n","d">>,
       <<"i","'","m"," ","h","e","r","e"," ","t","o"," ","h","e","l","p">>,
       <<"l","e","t"," ","m","e"," ","k","n","o","w">>,
       <<"f","e","e","l"," ","f","r","e","e"," ","t","o">>,
       <<"w","o","u","l","d"," ","y","o","u"," ","l","i","k","e"," ","m","e"," ","t","o">>,
       <<"i"," ","c","a","n"," ","h","e","l","p"," ","y","o","u">>,
       <<"h","o","w"," ","c","a","n"," ","i"," ","a","s","s","i","s","t">>,
       <<"i","s"," ","t","h","e","r","e"," ","a","n","y","t","h","i","n","g">>,
       <<"h","a","p","p","y"," ","t","o"," ","h","e","l","p">>,
       <<"i","'","d"," ","b","e"," ","h","a","p","p","y">>,
       <<"p","l","e","a","s","e"," ","d","o","n","'","t"," ","h","e","s","i","t","a","t","e">> >>

BULLET == "U+2022"

\* validate_response of main.py: (is_valid, error_message)
validate_response(response) ==
    IF Len(sentences(response)) > 4
    THEN << FALSE, Some("Too many sentences (>4)") >>
    ELSE IF count(response, "?") > 1
    THEN << FALSE, Some("Too many questions (>1)") >>
    ELSE LET phrase == FirstPhraseIn(BANNED_PHRASES, lower(response))
         IN  IF ~IsNone(phrase)
             THEN << FALSE, Some("Contains banned phrase: '" \o Str(Get(phrase)) \o "'") >>
             ELSE IF \/ IsSubstring(<< BULLET >>, response)
                     \/ IsSubstring(<< "\n", "-" >>, response)
                     \/ IsSubstring(<< "\n", "*" >>, response)
             THEN << FALSE, Some("Contains bullet points or lists") >>
             ELSE << TRUE, None >>

\* the code points of the characters outside ASCII that the replies hold
NamedCodePoints ==
    [c \in {"U+00A2", "U+00E2", "U+2022", "U+20AC", "U+2764", "U+1F600"} |->
        CASE c = "U+00A2" -> 162
          [] c = "U+00E2" -> 226
          [] c = "U+2022" -> 8226
          [] c = "U+20AC" -> 8364
          [] c = "U+2764" -> 10084
          [] c = "U+1F600" -> 128512]

\* ord(c); an ASCII character is given the greatest ASCII code point
ord(c) == IF c \in DOMAIN NamedCodePoints THEN NamedCodePoints[c] ELSE 127

\* the ranges of emoji_pattern, as pairs of code points
emoji_pattern ==
    { << 128512, 128591 >>, << 127744, 128511 >>, << 128640, 128767 >>,
      << 127462, 127487 >>, << 9986, 10160 >>, << 9410, 127569 >> }

\* emoji_pattern.search(text)
has_emoji(text) ==
    \E i \in 1..Len(text) : \E r \in emoji_pattern : r[1] <= ord(text[i]) /\ ord(text[i]) <= r[2]

\* re.search(r'\n\d+\.', text)
has_numbered_list(text) ==
    \E i \in 1..Len(text) : \E j \in (i + 2)..Len(text) :
        /\ text[i] = "\n"
        /\ \A k \in (i + 1)..(j - 1) : text[k] \in Digits
        /\ text[j] = "."

hedging_words ==
    << <<"m","a","y","b","e">>, <<"p","e","r","h","a","p","s">>,
       <<"p","o","s","s","i","b","l","y">>, <<"m","i","g","h","t">>,
       <<"c","o","u","l","d"," ","b","e">> >>

\* sum(1 for word in hedging_words if word in lower_response)
hedge_count(lower_response) ==
    Cardinality({k \in 1..Len(hedging_words) : IsSubstring(hedging_words[k], lower_response)})

\* validate_response of utils/response_validator.py: (is_valid, error_message)
response_validator_validate_response(response_text) ==
    IF response_text = << >> \/ Len(strip(response_text)) = 0
    THEN << FALSE, "Empty response" >>
    ELSE IF Len(sentences(response_text)) > 4
    THEN << FALSE, "Too many sentences (" \o ToString(Len(sentences(response_text)))
                   \o ", max 4)" >>
    ELSE LET lower_response == lower(response_text)
             phrase == FirstPhraseIn(banned_phrases, lower_response)
         IN  IF ~IsNone(phrase)
             THEN << FALSE, "Contains banned AI phrase: '" \o Str(Get(phrase)) \o "'" >>
             ELSE IF \/ IsSubstring(<< "\n", "-" >>, response_text)
                     \/ IsSubstring(<< "\n", "*" >>, response_text)
                     \/ IsSubstring(<< "\n", "U+00E2", "U+20AC", "U+00A2" >>, response_text)
             THEN << FALSE, "Contains list formatting" >>
             ELSE IF has_numbered_list(response_text)
             THEN << FALSE, "Contains numbered list" >>
             ELSE IF has_emoji(response_text)
             THEN << FALSE, "Contains emojis" >>
             ELSE IF hedge_count(lower_response) > 2
             THEN << FALSE, "Excessive hedging (too many maybe/perhaps/possibly)" >>
             ELSE IF word_count(response_text) > 100
             THEN << FALSE, "Response too long (" \o ToString(word_count(response_text))
                            \o " words, max ~100)" >>
             ELSE << TRUE, "Valid" >>

(***************************************************************************)
(* State.  The store outlives the process, so its content when the server  *)
(* starts is whatever earlier runs and other writers left in it.           *)
(***************************************************************************)
VARIABLES
    today,                  \* the server's calendar day (datetime.now().date())
    users_row,              \* users: is there a row for the request's email
    last_activity_at,       \* users.last_activity_at of that row
    checkins_mood,          \* checkins: mood of the user's newest row
    daily_checkins,         \* daily_checkins: the user's newest rows
    tasks_skipped,          \* tasks: the user's skipped tasks by age
    conversation_contexts,  \* conversation_contexts: the user's rows (0 or 1)
    messages_table,         \* messages: the user's rows, oldest first
    user_patterns,          \* user_patterns: the user's rows
    uuid_count,             \* uuid4 values drawn so far
    turns_served,           \* chat requests received so far
    faults,                 \* failed collaborator calls so far
    turn                    \* the frame of the chat request being served

vars == << today, users_row, last_activity_at, checkins_mood, daily_checkins,
           tasks_skipped, conversation_contexts, messages_table, user_patterns,
           uuid_count, turns_served, faults, turn >>

store == << users_row, last_activity_at, checkins_mood, daily_checkins,
            tasks_skipped, conversation_contexts, messages_table, user_patterns >>

USER_ID == "user-1"
TEMP_ID == "temp-id"

(***************************************************************************)
(* Inputs                                                                  *)
(***************************************************************************)
Messages ==
    { <<"I"," ","W","A","N","T"," ","T","O"," ","D","I","E">>,
      <<"n","o"," ","S","e","l","f","-","H","a","r","m">>,
      <<"w","a","n","t"," ","t","o"," ","l","i","v","e">> }

Histories == { << >> }

\* what the completion gateway answers when it does not fail
Replies == { "Hi.", "That sounds heavy. I'm glad you said it out loud." }

\* the reply of a turn whose completion call failed (line 1579)
APOLOGY == "I'm having trouble thinking right now. Let's try again."

DefaultContextRow ==
    [current_tone |-> "balanced", last_summary |-> None,
     last_strict_raw_at |-> None, strict_raw_count_today |-> 0,
     current_session_id |-> None, session_started_at |-> None]

\* no row; a fresh row; a row of a user who used raw on day 0
ContextRows ==
    { << >>,
      << DefaultContextRow >>,
      << [DefaultContextRow EXCEPT
            !.last_summary = Some("Skipped the gym twice. Insight: start small"),
            !.last_strict_raw_at = Some(0),
            !.strict_raw_count_today = 1] >> }

PatternRows ==
    { << [pattern_key |-> "avoidance", description |-> "Frequently skips tasks",
          confidence |-> 50] >> }

DailyCheckinRows ==
    { << [mood |-> 2, energy |-> 3], [mood |-> 3, energy |-> 2] >> }

\* skipped tasks older than 24 hours and younger than 72
OlderSkips == {4}

NoRequest == [message |-> << >>, tone_mode |-> "balanced", conversation_history |-> << >>]

IdleTurn ==
    [pc |-> "idle",
     request |-> NoRequest,
     user_id |-> None,
     session_id |-> None,
     time_ctx |-> EmptyDict,
     behavior_signals |-> EmptyDict,
     realtime_block |-> "",
     recent_messages |-> << >>,
     context |-> EmptyDict,
     patterns |-> << >>,
     user_state |-> EmptyDict,
     requested_tone |-> "",
     recent_mood |-> None,
     actual_tone |-> "",
     downgrade_reason |-> None,
     base_prompt |-> << >>,
     enhanced_prompt |-> << >>,
     gpt_calls |-> << >>,
     result |-> None,
     trace |-> << >>]

Init ==
    /\ today = 0
    /\ users_row \in BOOLEAN
    /\ last_activity_at = None
    /\ checkins_mood \in {None} \cup {Some(m) : m \in 1..MaxStoredMood}
    /\ daily_checkins \in DailyCheckinRows
    /\ tasks_skipped \in [within_24h : 0..MaxSkips24, older : OlderSkips]
    /\ conversation_contexts \in ContextRows
    \* a user without a users row has no check-in and no context row
    /\ ~users_row => (checkins_mood = None /\ conversation_contexts = << >>)
    /\ messages_table = << >>
    /\ user_patterns \in PatternRows
    /\ uuid_count = 0
    /\ turns_served = 0
    /\ faults = 0
    /\ turn = IdleTurn

Step(next_pc, tags) ==
    [turn EXCEPT !.pc = next_pc, !.trace = turn.trace \o tags]

HttpResponse(text, crisis) ==
    Some([status |-> 200, response |-> text, crisis_detected |-> crisis])
Http500 ==
    Some([status |-> 500, response |-> "", crisis_detected |-> FALSE])

\* the calls among `oks` that failed are charged to the behaviour's budget
Charge(oks) ==
    LET failed == Cardinality({i \in 1..Len(oks) : ~oks[i]})
    IN  /\ faults + failed <= MaxFaults
        /\ faults' = faults + failed

(***************************************************************************)
(* POST /chat                                                              *)
(***************************************************************************)
ReceiveChat(message, tone_mode, history) ==
    /\ turn.pc = "idle"
    /\ turns_served < MaxTurns
    /\ turns_served' = turns_served + 1
    /\ turn' = [IdleTurn EXCEPT
                  !.pc = "crisis_guard",
                  !.request = [message |-> message, tone_mode |-> tone_mode,
                               conversation_history |-> history]]
    /\ UNCHANGED << today, store, uuid_count, faults >>

\* STEP 1
CrisisGuard ==
    /\ turn.pc = "crisis_guard"
    /\ turn' =
         IF contains_crisis_signal(turn.request.message)
         THEN [Step("done", << "crisis_guard" >>) EXCEPT
                  !.result = HttpResponse(CRISIS_RESPONSE, TRUE)]
         ELSE Step("get_user", << "crisis_guard" >>)
    /\ UNCHANGED << today, store, uuid_count, turns_served, faults >>

\* get_or_create_user: the stored row's id, "temp-id" without a row or on error
get_or_create_user(read_ok, has_row) ==
    IF read_ok /\ has_row THEN USER_ID ELSE TEMP_ID

\* STEP 2: get_or_create_user, then the choice of the fallback
GetOrCreateUser ==
    /\ turn.pc = "get_user"
    /\ \E read_ok \in BOOLEAN :
         /\ Charge(<< read_ok >>)
         /\ LET user_id == get_or_create_user(read_ok, users_row)
            IN  turn' = [Step(IF user_id = TEMP_ID THEN "chat_without_memory"
                              ELSE "update_activity", << "read:users" >>)
                           EXCEPT !.user_id = Some(user_id)]
    /\ UNCHANGED << today, store, uuid_count, turns_served >>

\* STEP 3: update_last_activity
UpdateLastActivity ==
    /\ turn.pc = "update_activity"
    /\ \E write_ok \in BOOLEAN :
         /\ Charge(<< write_ok >>)
         /\ last_activity_at' = IF write_ok THEN Some(today) ELSE last_activity_at
    /\ turn' = Step("get_session", << "write:users" >>)
    /\ UNCHANGED << today, users_row, checkins_mood, daily_checkins, tasks_skipped,
                    conversation_contexts, messages_table, user_patterns,
                    uuid_count, turns_served >>

\* start_new_session's upsert of the session columns
UpsertSession(rows, new_session_id, now_day) ==
    << [(IF rows = << >> THEN DefaultContextRow ELSE rows[1]) EXCEPT
          !.current_session_id = Some(new_session_id),
          !.session_started_at = Some(now_day)] >>

\* get_current_session's test for a session to keep: a row with a session
\* id that is not stale (started more than 4 hours ago: on an earlier day)
HasLiveSession(read_ok, rows, now_day) ==
    /\ read_ok
    /\ rows # << >>
    /\ ~IsNone(rows[1].current_session_id)
    /\ \/ IsNone(rows[1].session_started_at)
       \/ Get(rows[1].session_started_at) = now_day

\* STEP 4: get_current_session
GetCurrentSession ==
    /\ turn.pc = "get_session"
    /\ \E read_ok \in BOOLEAN, write_ok \in BOOLEAN :
         IF HasLiveSession(read_ok, conversation_contexts, today)
         THEN /\ write_ok
              /\ Charge(<< read_ok >>)
              /\ turn' = [Step("save_user_message", << "read:conversation_contexts" >>)
                            EXCEPT !.session_id = conversation_contexts[1].current_session_id]
              /\ UNCHANGED << conversation_contexts, uuid_count >>
         ELSE /\ Charge(<< read_ok, write_ok >>)
              /\ uuid_count' = uuid_count + 1
              /\ conversation_contexts' =
                    IF write_ok THEN UpsertSession(conversation_contexts, uuid_count + 1, today)
                    ELSE conversation_contexts
              /\ turn' = [Step("save_user_message",
                               << "read:conversation_contexts", "write:conversation_contexts" >>)
                            EXCEPT !.session_id = Some(uuid_count + 1)]
    /\ UNCHANGED << today, users_row, last_activity_at, checkins_mood, daily_checkins,
                    tasks_skipped, messages_table, user_patterns, turns_served >>

\* save_message's insert
save_message(write_ok, msgs, role, content, session_id, now_day) ==
    IF write_ok
    THEN Append(msgs, [role |-> role, content |-> content,
                       session_id |-> session_id, created_at |-> now_day])
    ELSE msgs

\* STEP 5
SaveUserMessage ==
    /\ turn.pc = "save_user_message"
    /\ \E write_ok \in BOOLEAN :
         /\ Charge(<< write_ok >>)
         /\ messages_table' = save_message(write_ok, messages_table, "user",
                                           turn.request.message, turn.session_id, today)
    /\ turn' = Step("realtime_context", << "write:messages" >>)
    /\ UNCHANGED << today, users_row, last_activity_at, checkins_mood, daily_checkins,
                    tasks_skipped, conversation_contexts, user_patterns,
                    uuid_count, turns_served >>

\* STEP 6: the signal collector and the real-time block; `raised` is an
\* exception inside the block, taken by the handler of lines 1516-1520
BuildRealtimeContext ==
    /\ turn.pc = "realtime_context"
    /\ \E hour \in Hours, raised \in BOOLEAN,
          gap_ok \in BOOLEAN, skips24_ok \in BOOLEAN, skips72_ok \in BOOLEAN,
          rapid_ok \in BOOLEAN :
         /\ Charge(<< ~raised, gap_ok, skips24_ok, skips72_ok, rapid_ok >>)
         /\ LET time_ctx == get_time_context(hour)
                behavior_signals ==
                    get_user_behavior_signals(
                        get_session_gap(gap_ok, messages_table, today),
                        count_task_skips(skips24_ok, tasks_skipped.within_24h),
                        count_task_skips(skips72_ok, tasks_skipped.within_24h + tasks_skipped.older),
                        detect_rapid_opens(rapid_ok, messages_table, today))
            IN  turn' =
                  IF raised
                  THEN [Step("load_messages", << "signal_collector" >>) EXCEPT
                           !.realtime_block = "[REAL-TIME CONTEXT UNAVAILABLE]",
                           !.time_ctx = [is_late_night |-> FALSE],
                           !.behavior_signals = EmptyDict]
                  ELSE [Step("load_messages", << "signal_collector" >>) EXCEPT
                           !.realtime_block = build_realtime_context_block(time_ctx, behavior_signals),
                           !.time_ctx = time_ctx,
                           !.behavior_signals = behavior_signals]
    /\ UNCHANGED << today, store, uuid_count, turns_served >>

\* load_recent_messages: the newest `limit` rows, oldest first, [] on error
load_recent_messages(read_ok, msgs, limit) ==
    IF ~read_ok THEN << >>
    ELSE LET first == IF Len(msgs) > limit THEN Len(msgs) - limit + 1 ELSE 1
         IN  [i \in 1..(Len(msgs) - first + 1) |->
                 [role |-> msgs[first + i - 1].role, content |-> msgs[first + i - 1].content]]

\* STEP 7
LoadRecentMessages ==
    /\ turn.pc = "load_messages"
    /\ \E read_ok \in BOOLEAN :
         /\ Charge(<< read_ok >>)
         /\ turn' = [Step("load_context", << "read:messages" >>) EXCEPT
                       !.recent_messages = load_recent_messages(read_ok, messages_table, 15)]
    /\ UNCHANGED << today, store, uuid_count, turns_served >>

DefaultContext == [current_tone |-> "balanced", last_summary |-> None]

\* STEP 8: load_conversation_context; without a row it inserts the default one
LoadConversationContext ==
    /\ turn.pc = "load_context"
    /\ \E read_ok \in BOOLEAN, insert_ok \in BOOLEAN :
         IF read_ok /\ conversation_contexts # << >>
         THEN /\ insert_ok
              /\ Charge(<< read_ok >>)
              /\ turn' = [Step("load_patterns", << "read:conversation_contexts" >>)
                            EXCEPT !.context = conversation_contexts[1]]
              /\ UNCHANGED conversation_contexts
         ELSE IF read_ok
         THEN /\ Charge(<< insert_ok >>)
              /\ turn' = [Step("load_patterns",
                               << "read:conversation_contexts", "write:conversation_contexts" >>)
                            EXCEPT !.context = DefaultContext]
              /\ conversation_contexts' =
                    IF insert_ok THEN << DefaultContextRow >> ELSE conversation_contexts
         ELSE /\ insert_ok
              /\ Charge(<< read_ok >>)
              /\ turn' = [Step("load_patterns", << "read:conversation_contexts" >>)
                            EXCEPT !.context = DefaultContext]
              /\ UNCHANGED conversation_contexts
    /\ UNCHANGED << today, users_row, last_activity_at, checkins_mood, daily_checkins,
                    tasks_skipped, messages_table, user_patterns, uuid_count, turns_served >>

\* STEP 9
LoadUserPatterns ==
    /\ turn.pc = "load_patterns"
    /\ \E read_ok \in BOOLEAN :
         /\ Charge(<< read_ok >>)
         /\ turn' = [Step("derive_state", << "read:user_patterns" >>) EXCEPT
                       !.patterns = load_user_patterns(read_ok, user_patterns, MIN_CONFIDENCE)]
    /\ UNCHANGED << today, store, uuid_count, turns_served >>

\* the user's events of the last seven days, by type: every skipped task
\* of the last 72 hours was logged as one task_skipped event
UserEvents ==
    [task_completed |-> 0,
     task_skipped |-> tasks_skipped.within_24h + tasks_skipped.older]

\* STEP 10
DeriveUserState ==
    /\ turn.pc = "derive_state"
    /\ \E read_ok \in BOOLEAN :
         /\ Charge(<< read_ok >>)
         /\ turn' = [Step("enforce_tone", << "read:daily_checkins" >>) EXCEPT
                       !.user_state = derive_user_state(read_ok, daily_checkins, UserEvents)]
    /\ UNCHANGED << today, store, uuid_count, turns_served >>

\* get_last_checkin_mood: None without a row and on error
get_last_checkin_mood(read_ok, mood) == IF read_ok THEN mood ELSE None

\* STEP 11: server-side tone enforcement
EnforceTone ==
    /\ turn.pc = "enforce_tone"
    /\ \E read_ok \in BOOLEAN :
         /\ Charge(<< read_ok >>)
         /\ LET requested_tone ==
                    IF turn.request.tone_mode \in ALLOWED_TONES THEN turn.request.tone_mode
                    ELSE DictGet(turn.context, "current_tone", "balanced")
                recent_mood == get_last_checkin_mood(read_ok, checkins_mood)
                enforced == enforce_tone_downgrade(requested_tone, turn.behavior_signals,
                                                   recent_mood, turn.time_ctx)
            IN  turn' = [Step("build_prompt", << "read:checkins", "tone_resolver" >>) EXCEPT
                           !.requested_tone = requested_tone,
                           !.recent_mood = recent_mood,
                           !.actual_tone = enforced[1],
                           !.downgrade_reason = enforced[2]]
    /\ UNCHANGED << today, store, uuid_count, turns_served >>

\* STEP 12: base_prompt and enhanced_prompt
BuildPrompt ==
    /\ turn.pc = "build_prompt"
    /\ LET base_prompt ==
               build_memory_system_prompt(turn.actual_tone,
                                          DictGet(turn.context, "last_summary", None),
                                          turn.patterns, Some(turn.user_state))
       IN  turn' = [Step("build_messages", << "prompt_composer" >>) EXCEPT
                      !.base_prompt = base_prompt,
                      !.enhanced_prompt =
                          base_prompt \o << turn.realtime_block, RESPONSE_RULES >>]
    /\ UNCHANGED << today, store, uuid_count, turns_served, faults >>

\* the names chat binds before line 1563 (its parameter and the targets of
\* its assignments) and the module's globals of main.py
ChatLocals ==
    {"request", "user_email", "user", "user_id", "session_id", "time_ctx",
     "behavior_signals", "weather_ctx", "news_ctx", "realtime_block",
     "recent_messages", "context", "patterns", "user_state", "requested_tone",
     "recent_mood", "actual_tone", "downgrade_reason", "base_prompt",
     "enhanced_prompt"}
ModuleGlobals ==
    {"app", "client", "supabase", "GLOBAL_RULES", "GENTLE_MODE", "BALANCED_MODE",
     "DIRECT_MODE", "RAW_MODE", "MODE_CONSTRAINTS", "BANNED_PHRASES",
     "CRISIS_KEYWORDS", "CRISIS_RESPONSE", "ALLOWED_TONES", "get_system_prompt",
     "build_memory_system_prompt", "chat_without_memory"}

\* Python's lookup of a name read in chat: a local, else a global, else NameError
NameIsBound(name) == name \in ChatLocals \cup ModuleGlobals

\* line 1563: messages = [{"role": "system", "content": system_prompt}].
\* An unbound name raises NameError, which the handler of lines 1606-1608
\* turns into HTTPException(500).
BuildMessages ==
    /\ turn.pc = "build_messages"
    /\ turn' =
         IF NameIsBound("system_prompt")
         THEN Step("call_gpt", << >>)
         ELSE [Step("done", << "raise:NameError" >>) EXCEPT !.result = Http500]
    /\ UNCHANGED << today, store, uuid_count, turns_served, faults >>

(***************************************************************************)
(* chat_without_memory, awaited inside chat's try block: an error of the   *)
(* completion call propagates to chat's handler                            *)
(***************************************************************************)
GPT_FAILS == "GenerationError"

ChatWithoutMemory ==
    /\ turn.pc = "chat_without_memory"
    /\ \E outcome \in Replies \cup {GPT_FAILS} :
         /\ Charge(<< outcome # GPT_FAILS >>)
         /\ LET system_prompt ==
                    build_memory_system_prompt(turn.request.tone_mode, None, << >>, None)
                messages ==
                    << [role |-> "system", content |-> system_prompt] >>
                    \o turn.request.conversation_history
                    \o << [role |-> "user", content |-> turn.request.message] >>
                call == [messages |-> messages, temperature |-> 40, max_tokens |-> 100]
            IN  turn' = [Step("done", << "prompt_composer", "completion_gateway" >>
                                      \o (IF outcome = GPT_FAILS
                                          THEN << "raise:GenerationError" >> ELSE << >>))
                           EXCEPT
                           !.gpt_calls = Append(turn.gpt_calls, call),
                           !.result = IF outcome = GPT_FAILS THEN Http500
                                      ELSE HttpResponse(outcome, FALSE)]
    /\ UNCHANGED << today, store, uuid_count, turns_served >>

\* the response leaves the server and the frame is dropped
Return ==
    /\ turn.pc = "done"
    /\ turn' = IdleTurn
    /\ UNCHANGED << today, store, uuid_count, turns_served, faults >>

\* the server's calendar day advances; the day is taken to change between
\* requests
Midnight ==
    /\ turn.pc = "idle"
    /\ today < MaxDay
    /\ today' = today + 1
    /\ UNCHANGED << store, uuid_count, turns_served, faults, turn >>

Next ==
    \/ \E message \in Messages, tone_mode \in ALLOWED_TONES, history \in Histories :
          ReceiveChat(message, tone_mode, history)
    \/ CrisisGuard
    \/ GetOrCreateUser
    \/ UpdateLastActivity
    \/ GetCurrentSession
    \/ SaveUserMessage
    \/ BuildRealtimeContext
    \/ LoadRecentMessages
    \/ LoadConversationContext
    \/ LoadUserPatterns
    \/ DeriveUserState
    \/ EnforceTone
    \/ BuildPrompt
    \/ BuildMessages
    \/ ChatWithoutMemory
    \/ Return
    \/ Midnight

Spec == Init /\ [][Next]_vars

(***************************************************************************)
(* The tone resolver on its own: the inputs are drawn from their ranges    *)
(* and the resolver is applied to them.                                    *)
(***************************************************************************)
ToneSignalInputs ==
    {EmptyDict} \cup
    { get_user_behavior_signals(gap, s24, s72, rapid) :
        gap \in {0, 24}, s24 \in {0}, s72 \in 0..MaxSkips, rapid \in BOOLEAN }

ToneTimeInputs == { [is_late_night |-> b] : b \in BOOLEAN }

ToneMoodInputs == {None} \cup { Some(m) : m \in 1..MaxMood }

InitTone ==
    /\ today = 0
    /\ users_row = TRUE
    /\ last_activity_at = None
    /\ checkins_mood = None
    /\ daily_checkins = << >>
    /\ tasks_skipped = [within_24h |-> 0, older |-> 0]
    /\ conversation_contexts = << >>
    /\ messages_table = << >>
    /\ user_patterns = << >>
    /\ uuid_count = 0
    /\ turns_served = 0
    /\ faults = 0
    /\ \E requested_tone \in ALLOWED_TONES, behavior_signals \in ToneSignalInputs,
          recent_mood \in ToneMoodInputs, time_ctx \in ToneTimeInputs :
         turn = [IdleTurn EXCEPT
                   !.pc = "tone_inputs",
                   !.requested_tone = requested_tone,
                   !.behavior_signals = behavior_signals,
                   !.recent_mood = recent_mood,
                   !.time_ctx = time_ctx]

ResolveTone ==
    /\ turn.pc = "tone_inputs"
    /\ LET enforced == enforce_tone_downgrade(turn.requested_tone, turn.behavior_signals,
                                              turn.recent_mood, turn.time_ctx)
       IN  turn' = [Step("tone_resolved", << "tone_resolver" >>) EXCEPT
                      !.actual_tone = enforced[1],
                      !.downgrade_reason = enforced[2]]
    /\ UNCHANGED << today, store, uuid_count, turns_served, faults >>

NextTone == ResolveTone

SpecTone == InitTone /\ [][NextTone]_vars

(***************************************************************************)
(* The validators on their own: a reply is put together from parts, each   *)
(* part aimed at one rule, and both validators are applied to it.          *)
(***************************************************************************)
\* sentences in a reply: 0..MaxSentences
MaxSentences == 5
\* question marks in a reply: 0..MaxQuestions
MaxQuestions == 2

\* whitespace a reply starts with
Leads ==
    { << >>,
      << " " >>,
      << "\t", "\n" >> }

SENTENCE == << "H", "i", "." >>

\* hedging: one word three times, two words, three words
HedgeTexts ==
    { << >>,
      << " ", "M", "a", "y", "b", "e", " ", "m", "a", "y", "b", "e", " ", "m", "a", "y", "b", "e" >>,
      << " ", "m", "a", "y", "b", "e", " ", "p", "e", "r", "h", "a", "p", "s" >>,
      << " ", "M", "a", "y", "b", "e", " ", "p", "e", "r", "h", "a", "p", "s", " ", "M", "I", "G", "H", "T" >>,
      << " ", "c", "o", "u", "l", "d", " ", "b", "e", " ", "p", "o", "s", "s", "i", "b", "l", "y", " ", "m", "i", "g", "h", "t", " ", "s", "o" >> }

\* list formatting
ListTexts ==
    { << >>,
      << "\n", "-", " ", "x" >>,
      << "\n", "*", " ", "x" >>,
      << " ", BULLET, " ", "x" >>,
      << "\n", "1", "2", ".", " ", "x" >>,
      << "\n", "U+00E2", "U+20AC", "U+00A2", " ", "x" >> }

\* an emoji
EmojiTexts ==
    { << >>,
      << " ", "U+1F600" >> }

\* a phrase only main.py bans and a phrase only the validator module bans
BannedTexts ==
    { << >>,
      << " ", "Y", "o", "u", " ", "N", "e", "v", "e", "r" >>,
      << " ", "l", "e", "t", " ", "m", "e", " ", "k", "n", "o", "w" >> }

\* the limit of the word-count rule
WORD_LIMIT == 100
\* words of filler in a reply
Fillers == {0, WORD_LIMIT - 1}

RECURSIVE Repeat(_, _)
Repeat(piece, n) == IF n = 0 THEN << >> ELSE piece \o Repeat(piece, n - 1)

\* n sentences separated by one space
SentenceText(n) ==
    IF n = 0 THEN << >> ELSE SENTENCE \o Repeat(<< " " >> \o SENTENCE, n - 1)

ReplyParts ==
    [lead : Leads, n_sentences : 0..MaxSentences, ellipsis : BOOLEAN,
     n_questions : 0..MaxQuestions, hedges : HedgeTexts, list : ListTexts,
     emoji : EmojiTexts, banned : BannedTexts, filler : Fillers]

ReplyText(p) ==
    p.lead \o SentenceText(p.n_sentences)
    \o (IF p.ellipsis THEN << ".", ".", "." >> ELSE << >>)
    \o Repeat(<< "?" >>, p.n_questions)
    \o p.hedges \o p.list \o p.emoji \o p.banned
    \o Repeat(<< " ", "w" >>, p.filler)

InitValidate ==
    /\ today = 0
    /\ users_row = TRUE
    /\ last_activity_at = None
    /\ checkins_mood = None
    /\ daily_checkins = << >>
    /\ tasks_skipped = [within_24h |-> 0, older |-> 0]
    /\ conversation_contexts = << >>
    /\ messages_table = << >>
    /\ user_patterns = << >>
    /\ uuid_count = 0
    /\ turns_served = 0
    /\ faults = 0
    /\ \E p \in ReplyParts :
         turn = [pc |-> "reply_inputs", parts |-> p, assistant_message |-> ReplyText(p),
                 chat_verdict |-> << >>, module_verdict |-> << >>]

\* both validate_response functions applied to the reply
ValidateReply ==
    /\ turn.pc = "reply_inputs"
    /\ turn' = [turn EXCEPT
                  !.pc = "reply_validated",
                  !.chat_verdict = validate_response(turn.assistant_message),
                  !.module_verdict = response_validator_validate_response(turn.assistant_message)]
    /\ UNCHANGED << today, store, uuid_count, turns_served, faults >>

NextValidate == ValidateReply

SpecValidate == InitValidate /\ [][NextValidate]_vars

(***************************************************************************)
(* The prompt composer on its own: its arguments are drawn from their      *)
(* ranges and it is applied to them.                                       *)
(***************************************************************************)
\* patterns handed to the composer: 0..MaxPatterns
MaxPatterns == 4

\* the four tones and a tone the composer does not know
PromptTones == ALLOWED_TONES \cup {"harsh"}

PromptSummaries == {None, Some(""), Some("Skipped the gym twice. Insight: start small")}

PromptPatterns ==
    { [i \in 1..n |-> [pattern_key |-> "key " \o ToString(i),
                       description |-> "pattern " \o ToString(i),
                       confidence |-> 50]] : n \in 0..MaxPatterns }

PromptUserStates ==
    {None, Some(EmptyDict), Some(UNKNOWN_STATE), Some([energy |-> "low"]),
     Some([energy |-> "low", momentum |-> "stalled", emotional_load |-> "heavy"])}

InitPrompt ==
    /\ today = 0
    /\ users_row = TRUE
    /\ last_activity_at = None
    /\ checkins_mood = None
    /\ daily_checkins = << >>
    /\ tasks_skipped = [within_24h |-> 0, older |-> 0]
    /\ conversation_contexts = << >>
    /\ messages_table = << >>
    /\ user_patterns = << >>
    /\ uuid_count = 0
    /\ turns_served = 0
    /\ faults = 0
    /\ \E tone_mode \in PromptTones, last_summary \in PromptSummaries,
          patterns \in PromptPatterns, user_state \in PromptUserStates :
         turn = [pc |-> "prompt_inputs", tone_mode |-> tone_mode,
                 last_summary |-> last_summary, patterns |-> patterns,
                 user_state |-> user_state, sections |-> << >>, prompt |-> ""]

ComposePrompt ==
    /\ turn.pc = "prompt_inputs"
    /\ turn' = [turn EXCEPT
                  !.pc = "prompt_composed",
                  !.sections = build_memory_system_prompt(turn.tone_mode, turn.last_summary,
                                                          turn.patterns, turn.user_state),
                  !.prompt = join("\n\n", build_memory_system_prompt(turn.tone_mode, turn.last_summary,
                                                                     turn.patterns, turn.user_state))]
    /\ UNCHANGED << today, store, uuid_count, turns_served, faults >>

NextPrompt == ComposePrompt

SpecPrompt == InitPrompt /\ [][NextPrompt]_vars

(***************************************************************************)
(* Pattern store operations: detection after a logged event (log_event,    *)
(* detect_patterns, upsert_pattern), the reflection's pattern updates      *)
(* (run_reflection) and the weekly decay (decay_old_patterns).             *)
(* Confidences are hundredths, as in load_user_patterns; the arithmetic    *)
(* is that of an exact decimal column.                                     *)
(***************************************************************************)
\* requests handled in one behaviour
MaxPatternOps == 3
\* weeks that pass in one behaviour
MaxWeeks == 3

INITIAL_CONFIDENCE == 50
DETECTION_BOOST == 10
REFLECTION_BOOST == 15
DECAY_DAYS == 14

PatternKeys == {"avoidance", "momentum", "checkin_resistance"}

\* the keys a reflection result names
ReflectionKeys == {"avoidance", "momentum"}

\* user_patterns.evidence_count and last_seen are not in the insert of
\* upsert_pattern: the table's column defaults fill them.  A default is
\* NULL or the usual one (1, now()).
ColumnDefaults == [evidence_count : {None, Some(1)}, last_seen_now : BOOLEAN]

HasPattern(rows, pattern_key) == \E i \in 1..Len(rows) : rows[i].pattern_key = pattern_key

PatternOf(rows, pattern_key) ==
    rows[CHOOSE i \in 1..Len(rows) : rows[i].pattern_key = pattern_key]

\* min(old["confidence"] + boost, 1.0) without the min
new_confidence_without_cap(old_confidence, boost) == old_confidence + boost

\* min(old["confidence"] + boost, 1.0)
new_confidence(old_confidence, boost) ==
    IF old_confidence + boost < 100 THEN old_confidence + boost ELSE 100

\* max(confidence - 0.1, 0)
new_conf(confidence) == IF confidence - 10 > 0 THEN confidence - 10 ELSE 0

\* upsert_pattern: an existing row is strengthened, a new one is inserted;
\* an error (old["evidence_count"] + 1 on NULL is one) is swallowed
upsert_pattern(rows, pattern_key, description, boost, now, defaults) ==
    IF HasPattern(rows, pattern_key)
    THEN LET old == PatternOf(rows, pattern_key)
         IN  IF IsNone(old.evidence_count) THEN rows
             ELSE [i \in 1..Len(rows) |->
                     IF rows[i].pattern_key = pattern_key
                     THEN [rows[i] EXCEPT
                             !.confidence = new_confidence(old.confidence, boost),
                             !.evidence_count = Some(Get(old.evidence_count) + 1),
                             !.last_seen = Some(now)]
                     ELSE rows[i]]
    ELSE Append(rows, [pattern_key |-> pattern_key,
                       description |-> description,
                       confidence |-> INITIAL_CONFIDENCE,
                       evidence_count |-> defaults.evidence_count,
                       last_seen |-> IF defaults.last_seen_now THEN Some(now) ELSE None])

\* detect_patterns: the three rules over the events of the last 7 days
detect_patterns(rows, task_skips, task_completes, checkin_skips, now, defaults) ==
    LET r1 == IF task_skips >= 3
              THEN upsert_pattern(rows, "avoidance", "Frequently skips tasks",
                                  DETECTION_BOOST, now, defaults)
              ELSE rows
        r2 == IF task_completes >= 5
              THEN upsert_pattern(r1, "momentum", "Building consistent task completion",
                                  DETECTION_BOOST, now, defaults)
              ELSE r1
    IN  IF checkin_skips >= 2
        THEN upsert_pattern(r2, "checkin_resistance", "Avoiding daily check-ins",
                            DETECTION_BOOST, now, defaults)
        ELSE r2

\* the "weaken" branch of run_reflection: below 0.2 the row is deleted
weaken_pattern(rows, pattern_key) ==
    IF ~HasPattern(rows, pattern_key) THEN rows
    ELSE LET weakened == new_conf(PatternOf(rows, pattern_key).confidence)
         IN  IF weakened < 20
             THEN SelectSeq(rows, LAMBDA r : r.pattern_key # pattern_key)
             ELSE [i \in 1..Len(rows) |->
                     IF rows[i].pattern_key = pattern_key
                     THEN [rows[i] EXCEPT !.confidence = weakened]
                     ELSE rows[i]]

\* the loop over result["pattern_updates"] of run_reflection
RECURSIVE apply_pattern_updates(_, _, _, _)
apply_pattern_updates(rows, updates, now, defaults) ==
    IF updates = << >> THEN rows
    ELSE LET update == Head(updates)
             after ==
                IF update.action = "strengthen"
                THEN upsert_pattern(rows, update.key, update.reason,
                                    REFLECTION_BOOST, now, defaults)
                ELSE IF update.action = "weaken"
                THEN weaken_pattern(rows, update.key)
                ELSE rows
         IN  apply_pattern_updates(after, Tail(updates), now, defaults)

\* decay_old_patterns: rows with last_seen more than 14 days back lose 0.1
\* and are deleted below 0.3; a NULL last_seen matches no "lt" filter
IsOld(row, now) == ~IsNone(row.last_seen) /\ Get(row.last_seen) < now - DECAY_DAYS

decay_patterns(rows, now) ==
    LET kept == SelectSeq(rows, LAMBDA r : ~(IsOld(r, now) /\ new_conf(r.confidence) < 30))
    IN  [i \in 1..Len(kept) |->
            IF IsOld(kept[i], now)
            THEN [kept[i] EXCEPT !.confidence = new_conf(kept[i].confidence)]
            ELSE kept[i]]

\* the events of the last seven days a detection may count: no rule
\* fires, one does, all three do
EventCounts ==
    { [task_skips |-> 2, task_completes |-> 4, checkin_skips |-> 1],
      [task_skips |-> 3, task_completes |-> 4, checkin_skips |-> 1],
      [task_skips |-> 2, task_completes |-> 5, checkin_skips |-> 1],
      [task_skips |-> 2, task_completes |-> 4, checkin_skips |-> 2],
      [task_skips |-> 3, task_completes |-> 5, checkin_skips |-> 2] }

PatternUpdates ==
    [key : ReflectionKeys, action : {"strengthen", "weaken"}, reason : {"seen again"}]

\* result["pattern_updates"]: none, one update, or the same pattern
\* weakened twice
UpdateLists ==
    { << >> } \cup { << u >> : u \in PatternUpdates }
    \cup { << u, u >> : u \in {v \in PatternUpdates :
                                  v.key = "avoidance" /\ v.action = "weaken"} }

REFLECTION_SUMMARY == "Skipped the gym twice. Insight: start small"

\* the avoidance row as detection inserted it on day 0
InsertedPattern(defaults) ==
    upsert_pattern(<< >>, "avoidance", "Frequently skips tasks", DETECTION_BOOST, 0, defaults)

\* no pattern yet; the avoidance pattern just detected; the avoidance
\* pattern detected and strengthened by two reflections
StoredPatterns(defaults) ==
    { << >>, InsertedPattern(defaults) }
    \cup (IF IsNone(defaults.evidence_count) THEN {}
          ELSE { upsert_pattern(
                    upsert_pattern(InsertedPattern(defaults), "avoidance", "seen again",
                                   REFLECTION_BOOST, 0, defaults),
                    "avoidance", "seen again", REFLECTION_BOOST, 0, defaults) })

InitPatterns ==
    /\ today = 0
    /\ users_row = TRUE
    /\ last_activity_at = None
    /\ checkins_mood = None
    /\ daily_checkins = << >>
    /\ tasks_skipped = [within_24h |-> 0, older |-> 0]
    /\ conversation_contexts = << >>
    /\ messages_table = << >>
    /\ uuid_count = 0
    /\ turns_served = 0
    /\ faults = 0
    /\ \E defaults \in ColumnDefaults :
         /\ user_patterns \in StoredPatterns(defaults)
         /\ turn = [pc |-> "patterns", column_defaults |-> defaults,
                    handler |-> "none", before |-> user_patterns]

\* one more request is handled; `before` keeps the rows it found
Handled(handler) ==
    /\ turn.pc = "patterns"
    /\ turns_served < MaxPatternOps
    /\ turns_served' = turns_served + 1
    /\ turn' = [turn EXCEPT !.handler = handler, !.before = user_patterns]

\* log_event of a task_skipped, task_completed or checkin_skipped event;
\* an error of the insert or of the events query is swallowed
LogEvent ==
    /\ Handled("log_event")
    /\ \E ok \in BOOLEAN, events \in EventCounts :
         /\ Charge(<< ok >>)
         /\ user_patterns' =
               IF ok
               THEN detect_patterns(user_patterns, events.task_skips, events.task_completes,
                                    events.checkin_skips, today, turn.column_defaults)
               ELSE user_patterns
    /\ UNCHANGED << today, users_row, last_activity_at, checkins_mood, daily_checkins,
                    tasks_skipped, conversation_contexts, messages_table, uuid_count >>

\* POST /reflection/run/{user_id}: without events, or when the events
\* query or the completion fails, nothing is written
RunReflection ==
    /\ Handled("run_reflection")
    /\ \E ok \in BOOLEAN, has_events \in BOOLEAN, updates \in UpdateLists :
         /\ Charge(<< ok >>)
         /\ IF ok /\ has_events
            THEN /\ user_patterns' = apply_pattern_updates(user_patterns, updates, today,
                                                           turn.column_defaults)
                 /\ conversation_contexts' =
                       IF conversation_contexts = << >>
                       THEN << [DefaultContextRow EXCEPT !.last_summary = Some(REFLECTION_SUMMARY)] >>
                       ELSE << [conversation_contexts[1] EXCEPT
                                  !.last_summary = Some(REFLECTION_SUMMARY)] >>
            ELSE /\ updates = << >>
                 /\ UNCHANGED << user_patterns, conversation_contexts >>
    /\ UNCHANGED << today, users_row, last_activity_at, checkins_mood, daily_checkins,
                    tasks_skipped, messages_table, uuid_count >>

\* POST /patterns/decay
DecayOldPatterns ==
    /\ Handled("decay_old_patterns")
    /\ \E ok \in BOOLEAN :
         /\ Charge(<< ok >>)
         /\ user_patterns' = IF ok THEN decay_patterns(user_patterns, today) ELSE user_patterns
    /\ UNCHANGED << today, users_row, last_activity_at, checkins_mood, daily_checkins,
                    tasks_skipped, conversation_contexts, messages_table, uuid_count >>

\* the decay runs weekly: seven days pass
WeekPasses ==
    /\ turn.pc = "patterns"
    /\ today < 7 * MaxWeeks
    /\ today' = today + 7
    /\ UNCHANGED << store, uuid_count, turns_served, faults, turn >>

NextPatterns ==
    \/ LogEvent
    \/ RunReflection
    \/ DecayOldPatterns
    \/ WeekPasses

SpecPatterns == InitPatterns /\ [][NextPatterns]_vars

(***************************************************************************)
(* The raw cooldown on its own: record_strict_raw_usage and                *)
(* can_use_strict_raw called on the user's conversation_contexts row, on   *)
(* the same day and on later days.                                         *)
(***************************************************************************)
\* days that pass in one behaviour
MaxCooldownDay == 3

\* record_strict_raw_usage: the upsert sets the time and the count of the
\* user's row, or inserts the row; an error is swallowed
record_strict_raw_usage(write_ok, rows, now_day) ==
    IF ~write_ok THEN rows
    ELSE IF rows = << >>
    THEN << [DefaultContextRow EXCEPT
               !.last_strict_raw_at = Some(now_day), !.strict_raw_count_today = 1] >>
    ELSE << [rows[1] EXCEPT
               !.last_strict_raw_at = Some(now_day), !.strict_raw_count_today = 1] >>

\* the day of the record a row holds
RecordedOn(rows) ==
    IF rows # << >> /\ rows[1].strict_raw_count_today >= 1
    THEN rows[1].last_strict_raw_at ELSE None

InitCooldown ==
    /\ today = 0
    /\ users_row = TRUE
    /\ last_activity_at = None
    /\ checkins_mood = None
    /\ daily_checkins = << >>
    /\ tasks_skipped = [within_24h |-> 0, older |-> 0]
    /\ conversation_contexts \in ContextRows
    /\ messages_table = << >>
    /\ user_patterns = << >>
    /\ uuid_count = 0
    /\ turns_served = 0
    /\ faults = 0
    /\ turn = [pc |-> "cooldown", recorded_on |-> RecordedOn(conversation_contexts),
               last_check |-> None]

\* a raw use is recorded; recorded_on keeps the day of the last record
\* that was written
RecordStrictRawUsage ==
    /\ turn.pc = "cooldown"
    /\ \E write_ok \in BOOLEAN :
         /\ Charge(<< write_ok >>)
         /\ conversation_contexts' =
               record_strict_raw_usage(write_ok, conversation_contexts, today)
         /\ turn' = [turn EXCEPT
                       !.recorded_on = IF write_ok THEN Some(today) ELSE turn.recorded_on,
                       !.last_check = None]
    /\ UNCHANGED << today, users_row, last_activity_at, checkins_mood, daily_checkins,
                    tasks_skipped, messages_table, user_patterns, uuid_count, turns_served >>

\* the cooldown is checked; last_check keeps the answer and its day
CheckStrictRaw ==
    /\ turn.pc = "cooldown"
    /\ \E read_ok \in BOOLEAN :
         /\ Charge(<< read_ok >>)
         /\ LET answer == can_use_strict_raw(read_ok, conversation_contexts, today)
            IN  turn' = [turn EXCEPT
                          !.last_check = Some([allowed |-> answer[1], reason |-> answer[2],
                                               read_ok |-> read_ok, day |-> today])]
    /\ UNCHANGED << today, store, uuid_count, turns_served >>

DayPasses ==
    /\ turn.pc = "cooldown"
    /\ today < MaxCooldownDay
    /\ today' = today + 1
    /\ UNCHANGED << store, uuid_count, turns_served, faults, turn >>

NextCooldown ==
    \/ RecordStrictRawUsage
    \/ CheckStrictRaw
    \/ DayPasses

SpecCooldown == InitCooldown /\ [][NextCooldown]_vars

(***************************************************************************)
(* Properties                                                              *)
(***************************************************************************)
\* the messages of Messages that hold a crisis keyword, and those that do
\* not, told apart by reading them
CrisisMessages ==
    { <<"I"," ","W","A","N","T"," ","T","O"," ","D","I","E">>,
      <<"n","o"," ","S","e","l","f","-","H","a","r","m">> }
CalmMessages ==
    { <<"w","a","n","t"," ","t","o"," ","l","i","v","e">> }

InCrisisTurn == turn.pc # "idle" /\ turn.request.message \in CrisisMessages
CalmTurnDone == turn.pc = "done" /\ turn.request.message \in CalmMessages

\* C1: a turn whose message holds a crisis keyword (in any letter case) takes
\* no step but the guard's and the return: the store, the uuid source and the
\* fault count stay as they are, no tone is resolved, the completion gateway
\* is not called, and the turn ends with the literal crisis message and
\* crisis_detected = true.
C1_CrisisTurnOnlyReturnsTheFixedMessage ==
    [][ InCrisisTurn =>
          /\ store' = store
          /\ uuid_count' = uuid_count
          /\ faults' = faults
          /\ turn'.pc \in {"done", "idle"}
          /\ turn'.pc = "done" =>
                /\ turn'.result = HttpResponse(CRISIS_RESPONSE, TRUE)
                /\ turn'.trace = << "crisis_guard" >>
                /\ turn'.gpt_calls = << >>
                /\ turn'.actual_tone = ""
                /\ IsNone(turn'.user_id) ]_vars

\* an upper-case crisis message, answered in the second turn, after a turn
\* that saved its user message
C1_Witness ==
    /\ turn.pc = "done"
    /\ turn.request.message = <<"I"," ","W","A","N","T"," ","T","O"," ","D","I","E">>
    /\ turn.result = HttpResponse(CRISIS_RESPONSE, TRUE)
    /\ turns_served = 2
    /\ messages_table # << >>

\* C2: a turn without a crisis keyword ends by returning a reply text (the
\* model's reply or the apology), never an HTTP 5xx error, on the stored-user
\* path and on the fallback path.
C2_CalmTurnNeverEndsIn5xx ==
    CalmTurnDone =>
        /\ Get(turn.result).status = 200
        /\ Get(turn.result).response \in Replies \cup {APOLOGY}

TraceHasInOrder(a, b) ==
    \E i, j \in 1..Len(turn.trace) :
        i < j /\ turn.trace[i] = a /\ turn.trace[j] = b

\* C3: a turn without a crisis keyword of a stored user runs the signal
\* collector, the tone resolver, the prompt composer and the completion
\* gateway in this order, and the gateway is called at least once, with the
\* composed prompt, before the turn returns.
C3_StoredTurnReachesTheGatewayInOrder ==
    (CalmTurnDone /\ turn.user_id = Some(USER_ID)) =>
        /\ Len(turn.gpt_calls) >= 1
        /\ turn.gpt_calls[1].messages[1].content = turn.enhanced_prompt
        /\ TraceHasInOrder("signal_collector", "tone_resolver")
        /\ TraceHasInOrder("tone_resolver", "prompt_composer")
        /\ TraceHasInOrder("prompt_composer", "completion_gateway")

(***************************************************************************)
(* The tone resolver's rules, on the states of SpecTone                    *)
(***************************************************************************)
Resolved == turn.pc = "tone_resolved"
Skips72 == DictGet(turn.behavior_signals, "task_skips_72h", 0)
LateNight == DictGet(turn.time_ctx, "is_late_night", FALSE)
MoodBelow(k) == ~IsNone(turn.recent_mood) /\ Get(turn.recent_mood) < k
HighAvoidanceFired ==
    turn.downgrade_reason \in { Some(HighAvoidanceReason(n)) : n \in 0..MaxSkips }
LateNightFired == turn.downgrade_reason = Some(LATE_NIGHT_REASON)

\* C4: requested gentle resolves to gentle with no reason, whatever the
\* signals, the mood and the time context are.
C4_GentleIsReturnedUnchanged ==
    (Resolved /\ turn.requested_tone = "soft") =>
        (turn.actual_tone = "soft" /\ IsNone(turn.downgrade_reason))

\* gentle requested at the lowest mood, late at night, with 5 or more skips
C4_Witness ==
    /\ Resolved /\ turn.requested_tone = "soft"
    /\ turn.recent_mood = Some(1) /\ LateNight /\ Skips72 >= 5
    /\ turn.actual_tone = "soft"

\* C5: with a mood below 4, raw, direct and balanced resolve to gentle with
\* the low-mood reason, whatever the skip counts and the late-night flag are.
C5_LowMoodForcesGentle ==
    (Resolved /\ MoodBelow(4)
       /\ turn.requested_tone \in {"strict_raw", "strict_clean", "balanced"}) =>
        (turn.actual_tone = "soft" /\ turn.downgrade_reason = Some(LOW_MOOD_REASON))

\* raw requested at mood 3, late at night, with 5 or more skips
C5_Witness ==
    /\ Resolved /\ turn.requested_tone = "strict_raw"
    /\ turn.recent_mood = Some(3) /\ LateNight /\ Skips72 >= 5
    /\ turn.actual_tone = "soft"

\* C6: with the mood missing or at least 4, raw and direct resolve to
\* balanced with the high-avoidance reason exactly when task_skips_72h >= 5;
\* the high-avoidance downgrade never fires below 5 skips or without the key,
\* and never for requested balanced or gentle.
C6_HighAvoidanceFiresFromFiveSkips ==
    Resolved =>
        /\ (~MoodBelow(4) /\ turn.requested_tone \in {"strict_raw", "strict_clean"}) =>
              ((turn.actual_tone = "balanced" /\ HighAvoidanceFired) <=> Skips72 >= 5)
        /\ HighAvoidanceFired =>
              /\ turn.actual_tone = "balanced"
              /\ turn.downgrade_reason = Some(HighAvoidanceReason(Skips72))
        /\ Skips72 < 5 => ~HighAvoidanceFired
        /\ "task_skips_72h" \notin DOMAIN turn.behavior_signals => ~HighAvoidanceFired
        /\ turn.requested_tone \in {"balanced", "soft"} => ~HighAvoidanceFired

\* direct requested with exactly 5 skips and no mood
C6_Witness ==
    /\ Resolved /\ turn.requested_tone = "strict_clean"
    /\ IsNone(turn.recent_mood) /\ Skips72 = 5
    /\ turn.actual_tone = "balanced" /\ HighAvoidanceFired

\* C7: late at night, with a mood below 5, fewer than 5 skips and raw or
\* direct requested, mood 4 resolves to balanced with the late-night reason
\* and the moods below 4 are taken by the low-mood rule; when it is not late
\* night, or the mood is 5 or more, the late-night downgrade never fires.
C7_LateNightDowngradeAtMoodFour ==
    Resolved =>
        /\ (LateNight /\ MoodBelow(5) /\ Skips72 < 5
              /\ turn.requested_tone \in {"strict_raw", "strict_clean"}) =>
              IF Get(turn.recent_mood) = 4
              THEN turn.actual_tone = "balanced" /\ LateNightFired
              ELSE turn.actual_tone = "soft"
                   /\ turn.downgrade_reason = Some(LOW_MOOD_REASON)
        /\ (~LateNight \/ (~IsNone(turn.recent_mood) /\ Get(turn.recent_mood) >= 5)) =>
              ~LateNightFired

\* raw requested late at night at mood 4 with 4 skips
C7_Witness ==
    /\ Resolved /\ turn.requested_tone = "strict_raw"
    /\ LateNight /\ turn.recent_mood = Some(4) /\ Skips72 = 4
    /\ turn.actual_tone = "balanced" /\ LateNightFired

\* C8: with no recorded mood and fewer than 5 skips every requested tone is
\* returned unchanged with no reason, late at night or not; the only
\* downgrade with no recorded mood is the high-avoidance one.
C8_MissingMoodTriggersNoDowngrade ==
    (Resolved /\ IsNone(turn.recent_mood)) =>
        /\ Skips72 < 5 =>
              (turn.actual_tone = turn.requested_tone /\ IsNone(turn.downgrade_reason))
        /\ ~IsNone(turn.downgrade_reason) => HighAvoidanceFired

\* raw requested late at night with no mood and 4 skips
C8_Witness ==
    /\ Resolved /\ IsNone(turn.recent_mood) /\ LateNight /\ Skips72 = 4
    /\ turn.requested_tone = "strict_raw" /\ turn.actual_tone = "strict_raw"

(***************************************************************************)
(* The raw cooldown in the chat turn                                       *)
(***************************************************************************)
ToneResolved == turn.actual_tone # ""

\* the store holds the record of a raw turn of the user on the current day
RawRecordedToday ==
    /\ conversation_contexts # << >>
    /\ conversation_contexts[1].last_strict_raw_at = Some(today)
    /\ conversation_contexts[1].strict_raw_count_today >= 1

\* C9: once a raw turn of the user is recorded on a day, a turn of that day
\* that requests raw is resolved to balanced with the cooldown reason, for
\* every mood; stated here for the moods the low-mood rule leaves alone.
C9_RawIsCooledDownAfterARecordedUse ==
    (ToneResolved /\ turn.requested_tone = "strict_raw" /\ RawRecordedToday
       /\ ~MoodBelow(4)) =>
        (turn.actual_tone = "balanced" /\ turn.downgrade_reason = Some(COOLDOWN_REASON))

HasSection(prompt, section) == \E k \in 1..Len(prompt) : prompt[k] = section

\* C10: the prompt sent to the model holds the RAW block only if the message
\* has no crisis keyword, the user's newest mood is not below 4 and raw has
\* not been used by the user on the current day.
C10_RawBlockOnlyWhenRawIsAllowed ==
    \A i \in 1..Len(turn.gpt_calls) :
        HasSection(turn.gpt_calls[i].messages[1].content, RAW_MODE) =>
            /\ turn.request.message \notin CrisisMessages
            /\ ~(~IsNone(checkins_mood) /\ Get(checkins_mood) < 4)
            /\ can_use_strict_raw(TRUE, conversation_contexts, today)[1]

(***************************************************************************)
(* Generation, validation and retry in the chat turn                       *)
(***************************************************************************)
StoredCalmTurnDone == CalmTurnDone /\ turn.user_id = Some(USER_ID)
TraceCount(tag) == Cardinality({i \in 1..Len(turn.trace) : turn.trace[i] = tag})

\* C11: a stored user's turn without a crisis keyword applies the validator
\* exactly once, and the text it returns (the retry's text after a failed
\* validation, whatever it holds) is returned with status 200 and saved as
\* the assistant message of the turn's session.
C11_ValidatedOnceAndTheRetryIsReturnedAndSaved ==
    StoredCalmTurnDone =>
        /\ TraceCount("response_validator") = 1
        /\ Get(turn.result).status = 200
        /\ \E i \in 1..Len(messages_table) :
              /\ messages_table[i].role = "assistant"
              /\ messages_table[i].content = Get(turn.result).response
              /\ messages_table[i].session_id = turn.session_id

\* C12: a turn whose generation call failed answers with the literal apology
\* and status 200: the error is not propagated to the caller.
C12_GenerationFailureYieldsTheApology ==
    (CalmTurnDone /\ TraceCount("raise:GenerationError") >= 1) =>
        turn.result = HttpResponse(APOLOGY, FALSE)

\* C13: a turn without a crisis keyword makes at most two calls to the
\* completion gateway, and a stored user's turn makes the original call: one
\* call, or two when the first reply failed validation.
C13_OneCallAndAtMostOneRetry ==
    CalmTurnDone =>
        /\ Len(turn.gpt_calls) <= 2
        /\ TraceCount("completion_gateway") = Len(turn.gpt_calls)
        /\ turn.user_id = Some(USER_ID) => Len(turn.gpt_calls) >= 1

(***************************************************************************)
(* The validators' rules, on the states of SpecValidate                    *)
(***************************************************************************)
Validated == turn.pc = "reply_validated"
Blank(text) == \A i \in 1..Len(text) : text[i] \in Whitespace

\* the reply is made of whitespace, sentences, an ellipsis and question
\* marks only
OnlySentencesAndQuestions ==
    /\ turn.parts.hedges = << >> /\ turn.parts.list = << >>
    /\ turn.parts.emoji = << >> /\ turn.parts.banned = << >>
    /\ turn.parts.filler = 0

\* the non-empty segments between the periods of such a reply: its
\* sentences, and the question marks after the last period
Segments == turn.parts.n_sentences + (IF turn.parts.n_questions > 0 THEN 1 ELSE 0)

\* C14: the validator the chat turn applies rejects the empty reply and every
\* reply of whitespace only, and accepts "Hi.".
C14_ChatValidatorRejectsBlankReplies ==
    Validated =>
        /\ Blank(turn.assistant_message) => ~turn.chat_verdict[1]
        /\ turn.assistant_message = << "H", "i", "." >> => turn.chat_verdict[1]

\* C15: a reply of sentences (and at most one question mark) fails with the
\* sentence-count violation exactly when it has more than 4 non-empty
\* segments between periods, in both validators: 5 fail, 4 pass.
C15_MoreThanFourSentencesFail ==
    (Validated /\ OnlySentencesAndQuestions /\ turn.parts.n_questions <= 1) =>
        /\ turn.chat_verdict =
              IF Segments > 4 THEN << FALSE, Some("Too many sentences (>4)") >>
              ELSE << TRUE, None >>
        /\ turn.module_verdict =
              IF Segments > 4
              THEN << FALSE, "Too many sentences (" \o ToString(Segments) \o ", max 4)" >>
              ELSE IF Segments = 0 /\ ~turn.parts.ellipsis
              THEN << FALSE, "Empty response" >>
              ELSE << TRUE, "Valid" >>

\* five sentences, rejected by both validators for their count
C15_Witness ==
    /\ Validated /\ OnlySentencesAndQuestions
    /\ turn.parts.n_sentences = 5 /\ turn.parts.n_questions = 0
    /\ turn.parts.lead = << >> /\ ~turn.parts.ellipsis
    /\ ~turn.chat_verdict[1] /\ ~turn.module_verdict[1]

\* C16: a reply that is not blank and has at most 4 segments fails with the
\* question-count violation exactly when it holds more than one '?', in the
\* validator module and in the validator the chat turn applies.
C16_MoreThanOneQuestionFails ==
    (Validated /\ OnlySentencesAndQuestions /\ Segments <= 4
       /\ ~Blank(turn.assistant_message)) =>
        /\ ~turn.chat_verdict[1] <=> turn.parts.n_questions > 1
        /\ ~turn.module_verdict[1] <=> turn.parts.n_questions > 1

\* a bullet anywhere, or a newline followed by '-', by '*', or by digits
\* and '.'
HasListPattern(text) ==
    \/ \E i \in 1..Len(text) : text[i] = BULLET
    \/ \E i \in 1..(Len(text) - 1) : text[i] = "\n" /\ text[i + 1] \in {"-", "*"}
    \/ \E i \in 1..Len(text) : \E j \in (i + 2)..Len(text) :
          /\ text[i] = "\n" /\ text[j] = "."
          /\ \A k \in (i + 1)..(j - 1) : text[k] \in Digits

\* C17: the validator the chat turn applies rejects every reply that holds a
\* list pattern, and reports list formatting for no reply without one.
C17_ChatValidatorRejectsEveryListPattern ==
    Validated =>
        /\ HasListPattern(turn.assistant_message) => ~turn.chat_verdict[1]
        /\ turn.chat_verdict = << FALSE, Some("Contains bullet points or lists") >>
              => HasListPattern(turn.assistant_message)

\* the occurrences of a word in a text
Occurrences(word, text) ==
    Cardinality({i \in 0..(Len(text) - Len(word)) :
        \A j \in 1..Len(word) : text[i + j] = word[j]})

RECURSIVE SumOccurrences(_, _)
SumOccurrences(words, text) ==
    IF words = << >> THEN 0
    ELSE Occurrences(Head(words), text) + SumOccurrences(Tail(words), text)

\* the hedging words of the reply, counted with their repetitions, in any
\* letter case
HedgeOccurrences(text) ==
    SumOccurrences(<< <<"m","a","y","b","e">>, <<"p","e","r","h","a","p","s">>,
                      <<"p","o","s","s","i","b","l","y">>, <<"m","i","g","h","t">>,
                      <<"c","o","u","l","d"," ","b","e">> >>, lower(text))

HEDGING_MESSAGE == "Excessive hedging (too many maybe/perhaps/possibly)"

\* C18: a reply of one to four sentences and hedging words fails with the
\* hedging violation exactly when the hedging words occur more than 2 times
\* in total.
C18_MoreThanTwoHedgingWordsFail ==
    (Validated /\ turn.parts.n_sentences \in 1..4 /\ turn.parts.n_questions = 0
       /\ turn.parts.list = << >> /\ turn.parts.emoji = << >>
       /\ turn.parts.banned = << >> /\ turn.parts.filler = 0) =>
        /\ turn.module_verdict = << FALSE, HEDGING_MESSAGE >>
              <=> HedgeOccurrences(turn.assistant_message) > 2
        /\ ~turn.chat_verdict[1] <=> HedgeOccurrences(turn.assistant_message) > 2

\* the rule a verdict reports, by its message
RuleOf(valid, message) ==
    IF valid THEN "valid"
    ELSE IF message = "Empty response" THEN "empty"
    ELSE IF message \in {"Too many sentences (>4)"}
                \cup {"Too many sentences (" \o ToString(k) \o ", max 4)" : k \in 5..(MaxSentences + 4)}
         THEN "sentence count"
    ELSE IF message = "Too many questions (>1)" THEN "question count"
    ELSE IF message \in {"Contains bullet points or lists", "Contains list formatting",
                         "Contains numbered list"}
         THEN "list formatting"
    ELSE IF message = "Contains emojis" THEN "emoji"
    ELSE IF message = HEDGING_MESSAGE THEN "hedging"
    ELSE IF message \in {"Response too long (" \o ToString(k) \o " words, max ~100)" :
                            k \in (WORD_LIMIT + 1)..(WORD_LIMIT + 20)}
         THEN "word count"
    ELSE "banned phrase"

\* the earliest rule a reply violates in the order empty, sentence count,
\* question count, banned phrase, list formatting, emoji, hedging, word
\* count, for a validator's list of banned phrases
FirstViolatedRule(text, phrases) ==
    IF Blank(text) THEN "empty"
    ELSE IF Len(sentences(text)) > 4 THEN "sentence count"
    ELSE IF count(text, "?") > 1 THEN "question count"
    ELSE IF ~IsNone(FirstPhraseIn(phrases, lower(text))) THEN "banned phrase"
    ELSE IF HasListPattern(text) THEN "list formatting"
    ELSE IF has_emoji(text) THEN "emoji"
    ELSE IF HedgeOccurrences(text) > 2 THEN "hedging"
    ELSE IF word_count(text) > WORD_LIMIT THEN "word count"
    ELSE "valid"

\* C19: each validator reports the earliest rule the reply violates in the
\* fixed order, and finds the reply valid only if it violates none.
C19_EarliestViolatedRuleIsReported ==
    Validated =>
        /\ RuleOf(turn.chat_verdict[1],
                  IF IsNone(turn.chat_verdict[2]) THEN "" ELSE Get(turn.chat_verdict[2]))
              = FirstViolatedRule(turn.assistant_message, BANNED_PHRASES)
        /\ RuleOf(turn.module_verdict[1], turn.module_verdict[2])
              = FirstViolatedRule(turn.assistant_message, banned_phrases)

(***************************************************************************)
(* The prompt composer's sections, on the states of SpecPrompt             *)
(***************************************************************************)
Composed == turn.pc = "prompt_composed"

\* the pattern-hints section for the first n patterns of the inputs
HintsOfFirst(n) ==
    CASE n = 1 -> "[OBSERVED PATTERNS]\n- pattern 1"
      [] n = 2 -> "[OBSERVED PATTERNS]\n- pattern 1\n- pattern 2"
      [] n = 3 -> "[OBSERVED PATTERNS]\n- pattern 1\n- pattern 2\n- pattern 3"

HasPatternHints ==
    \E k \in 1..Len(turn.sections) : \E n \in 1..MaxPatterns :
        turn.sections[k] = "[OBSERVED PATTERNS]\n" \o PatternHintLines(SubSeq(turn.patterns, 1, IF n < Len(turn.patterns) THEN n ELSE Len(turn.patterns)))

\* C20: the prompt composed for gentle holds no pattern-hints section,
\* whatever the summary, the user state and the patterns are; the prompt
\* composed for balanced, direct or raw with at least one pattern holds the
\* section, made of the first three patterns at most.
C20_GentleNeverShowsPatternHints ==
    Composed =>
        /\ turn.tone_mode = "soft" => ~HasPatternHints
        /\ (turn.tone_mode \in {"balanced", "strict_clean", "strict_raw"}
              /\ turn.patterns # << >>) =>
              \E k \in 1..Len(turn.sections) :
                  turn.sections[k] =
                      HintsOfFirst(IF Len(turn.patterns) < 3 THEN Len(turn.patterns) ELSE 3)

\* gentle composed with three patterns, a summary and a user state
C20_Witness ==
    /\ Composed /\ turn.tone_mode = "soft" /\ Len(turn.patterns) = 3
    /\ turn.last_summary = Some("Skipped the gym twice. Insight: start small")
    /\ turn.user_state = Some([energy |-> "low"])
    /\ Len(turn.sections) = 5

(***************************************************************************)
(* C21: the composed prompt is the sections present, joined by one blank   *)
(* line, in the order global rules, guard, tone block, user-state line,    *)
(* summary line, pattern hints.  The first three are always there, the     *)
(* tone block is the one keyed by the tone passed in (the balanced block   *)
(* for a tone that keys none), the user-state line is there iff a user     *)
(* state is given, the summary line iff the summary is non-empty, and an   *)
(* omitted section leaves no empty segment and no doubled separator.       *)
(***************************************************************************)
\* a user state is given: neither None nor a state without any field
StateGiven == ~IsNone(turn.user_state) /\ DOMAIN Get(turn.user_state) # {}

SummaryGiven == ~IsNone(turn.last_summary) /\ Get(turn.last_summary) # ""

ToneBlockOf(tone) ==
    CASE tone = "soft" -> GENTLE_MODE
      [] tone = "balanced" -> BALANCED_MODE
      [] tone = "strict_clean" -> DIRECT_MODE
      [] tone = "strict_raw" -> RAW_MODE
      [] OTHER -> BALANCED_MODE

ToneBlocks == {GENTLE_MODE, BALANCED_MODE, DIRECT_MODE, RAW_MODE}

StateLineOf(state) ==
    "[USER STATE]\nEnergy: " \o (IF "energy" \in DOMAIN state THEN state.energy ELSE "unknown")
    \o ". Momentum: " \o (IF "momentum" \in DOMAIN state THEN state.momentum ELSE "unknown")
    \o ". Emotional load: "
    \o (IF "emotional_load" \in DOMAIN state THEN state.emotional_load ELSE "unknown") \o "."

SummaryLineOf(summary) == "[RECENT CONTEXT]\n" \o summary

\* the position of the first section that is the given text, 0 when none is
PositionOf(text) ==
    IF \E i \in 1..Len(turn.sections) : turn.sections[i] = text
    THEN CHOOSE i \in 1..Len(turn.sections) :
            /\ turn.sections[i] = text
            /\ \A j \in 1..(i - 1) : turn.sections[j] # text
    ELSE 0

\* the text the claim describes, written out with its separators
ExpectedPrompt ==
    GLOBAL_RULES \o "\n\n" \o ANTI_HALLUCINATION_GUARD \o "\n\n" \o ToneBlockOf(turn.tone_mode)
    \o (IF StateGiven THEN "\n\n" \o StateLineOf(Get(turn.user_state)) ELSE "")
    \o (IF SummaryGiven THEN "\n\n" \o SummaryLineOf(Get(turn.last_summary)) ELSE "")
    \o (IF HasPatternHints THEN "\n\n" \o turn.sections[Len(turn.sections)] ELSE "")

C21_PromptIsThePresentSectionsInOrder ==
    Composed =>
        /\ Len(turn.sections) >= 3
        /\ turn.sections[1] = GLOBAL_RULES
        /\ turn.sections[2] = ANTI_HALLUCINATION_GUARD
        /\ turn.sections[3] = ToneBlockOf(turn.tone_mode)
        /\ Cardinality({i \in 1..Len(turn.sections) : turn.sections[i] \in ToneBlocks}) = 1
        /\ StateGiven => PositionOf(StateLineOf(Get(turn.user_state))) = 4
        /\ ~StateGiven => \A i \in 1..Len(turn.sections) :
                              \A st \in PromptUserStates \ {None} :
                                 turn.sections[i] # StateLineOf(Get(st))
        /\ SummaryGiven => PositionOf(SummaryLineOf(Get(turn.last_summary)))
                              = (IF StateGiven THEN 5 ELSE 4)
        /\ ~SummaryGiven => \A i \in 1..Len(turn.sections) :
                                \A su \in PromptSummaries \ {None} :
                                   turn.sections[i] # SummaryLineOf(Get(su))
        /\ HasPatternHints =>
              Len(turn.sections) = 4 + (IF StateGiven THEN 1 ELSE 0)
                                     + (IF SummaryGiven THEN 1 ELSE 0)
        /\ ~HasPatternHints =>
              Len(turn.sections) = 3 + (IF StateGiven THEN 1 ELSE 0)
                                     + (IF SummaryGiven THEN 1 ELSE 0)
        /\ \A i \in 1..Len(turn.sections) : turn.sections[i] # ""
        /\ turn.prompt = ExpectedPrompt

\* no user state, a summary and hints: a section is left out in the middle
C21_Witness ==
    /\ Composed
    /\ IsNone(turn.user_state)
    /\ SummaryGiven
    /\ HasPatternHints
    /\ turn.tone_mode = "strict_clean"
    /\ Len(turn.sections) = 5
    /\ turn.prompt = ExpectedPrompt

(***************************************************************************)
(* C22: a storage read that fails during a turn yields its neutral         *)
(* default and the turn goes on.  Every value the turn has read is either  *)
(* the value in storage or the default of that read: session gap 0, skip   *)
(* counts 0, rapid opens false, fresh session false, mood None, no         *)
(* patterns, summary None; a failed read changes no other read's value.    *)
(***************************************************************************)
SignalsCollected == DOMAIN turn.behavior_signals # {}

\* what the four signal reads return when none of them fails
StoredSignals ==
    get_user_behavior_signals(
        get_session_gap(TRUE, messages_table, today),
        count_task_skips(TRUE, tasks_skipped.within_24h),
        count_task_skips(TRUE, tasks_skipped.within_24h + tasks_skipped.older),
        detect_rapid_opens(TRUE, messages_table, today))

ZEROED_SIGNALS ==
    [session_gap_hours |-> 0, task_skips_24h |-> 0, task_skips_72h |-> 0,
     rapid_opens_detected |-> FALSE, is_fresh_session |-> FALSE]

C22_FailedReadsYieldNeutralDefaults ==
    /\ SignalsCollected =>
          /\ turn.behavior_signals.session_gap_hours
                \in {StoredSignals.session_gap_hours, ZEROED_SIGNALS.session_gap_hours}
          /\ turn.behavior_signals.task_skips_24h
                \in {StoredSignals.task_skips_24h, ZEROED_SIGNALS.task_skips_24h}
          /\ turn.behavior_signals.task_skips_72h
                \in {StoredSignals.task_skips_72h, ZEROED_SIGNALS.task_skips_72h}
          /\ turn.behavior_signals.rapid_opens_detected
                \in {StoredSignals.rapid_opens_detected, ZEROED_SIGNALS.rapid_opens_detected}
          /\ turn.behavior_signals.is_fresh_session
                \in {turn.behavior_signals.session_gap_hours > 4,
                     ZEROED_SIGNALS.is_fresh_session}
    /\ turn.pc \in {"build_prompt", "build_messages"} =>
          /\ turn.recent_mood \in {checkins_mood, None}
          /\ turn.patterns \in {load_user_patterns(TRUE, user_patterns, MIN_CONFIDENCE), << >>}
          /\ turn.context.last_summary
                \in {None} \cup {conversation_contexts[i].last_summary :
                                    i \in 1..Len(conversation_contexts)}

(***************************************************************************)
(* C23: after any sequence of pattern operations (detection upsert,        *)
(* reflection strengthen, reflection weaken, 14-day decay) a pattern       *)
(* detected for the first time is stored with confidence 0.5 and no        *)
(* stored pattern has a confidence below 0.3: an operation that would      *)
(* bring a pattern below 0.3 deletes it.                                   *)
(***************************************************************************)
PatternsHandled == turn.pc = "patterns" /\ turn.handler # "none"

C23_NoStoredPatternBelowThreshold ==
    turn.pc = "patterns" =>
        /\ \A i \in 1..Len(user_patterns) : user_patterns[i].confidence >= 30
        /\ \A i \in 1..Len(user_patterns) :
              ~HasPattern(turn.before, user_patterns[i].pattern_key)
                 => user_patterns[i].confidence = INITIAL_CONFIDENCE

(***************************************************************************)
(* C24: after any sequence of strengthen, weaken and decay operations a    *)
(* pattern's stored confidence stays within [0, 1]: strengthening caps at  *)
(* 1.0, weakening and decay store no negative value.                       *)
(***************************************************************************)
C24_ConfidenceStaysWithinUnitInterval ==
    turn.pc = "patterns" =>
        \A i \in 1..Len(user_patterns) :
            /\ user_patterns[i].confidence >= 0
            /\ user_patterns[i].confidence <= 100

\* a pattern at 0.95 was strengthened: the sum is above 1.0, 1.0 is stored
C24_Witness ==
    /\ PatternsHandled
    /\ turn.handler \in {"log_event", "run_reflection"}
    /\ \E i \in 1..Len(user_patterns) :
          /\ user_patterns[i].confidence = 100
          /\ HasPattern(turn.before, user_patterns[i].pattern_key)
          /\ PatternOf(turn.before, user_patterns[i].pattern_key).confidence = 95

(***************************************************************************)
(* C25: the raw cooldown is recorded as used in a turn if and only if the  *)
(* turn was a raw turn whose generation succeeded, and the record is       *)
(* written after the reply is obtained; stated here for a user with a      *)
(* users row: a finished turn whose reply was generated under the RAW      *)
(* block leaves the record of a raw use on the current day.                *)
(***************************************************************************)
RawTurnSucceeded ==
    /\ \E i \in 1..Len(turn.gpt_calls) :
          HasSection(turn.gpt_calls[i].messages[1].content, RAW_MODE)
    /\ ~IsNone(turn.result)
    /\ Get(turn.result).status = 200
    /\ Get(turn.result).response \in Replies

C25_RawCooldownRecordedAfterASuccessfulRawTurn ==
    (CalmTurnDone /\ users_row /\ RawTurnSucceeded) => RawRecordedToday

(***************************************************************************)
(* C26: for every input enforce_tone_downgrade returns no tone harsher     *)
(* than the requested one, in the order gentle < balanced < direct < raw,  *)
(* and it returns a reason if and only if the returned tone differs from   *)
(* the requested tone.                                                     *)
(***************************************************************************)
ToneRank(tone) ==
    CASE tone = "soft" -> 1
      [] tone = "balanced" -> 2
      [] tone = "strict_clean" -> 3
      [] tone = "strict_raw" -> 4

C26_ResolverNeverReturnsAHarsherTone ==
    Resolved =>
        /\ turn.actual_tone \in ALLOWED_TONES
        /\ ToneRank(turn.actual_tone) <= ToneRank(turn.requested_tone)
        /\ ~IsNone(turn.downgrade_reason) <=> turn.actual_tone # turn.requested_tone

\* raw requested with a mood below 4: gentle comes back, with a reason
C26_Witness ==
    /\ Resolved
    /\ turn.requested_tone = "strict_raw"
    /\ turn.actual_tone = "soft"
    /\ ~IsNone(turn.downgrade_reason)

(***************************************************************************)
(* C27: the message history a turn sends to the model ends with that       *)
(* turn's own user message, also when saving the user message fails: the   *)
(* history a stored turn has re-read from storage ends with the message    *)
(* of its request, and the finished turn has sent a history that ends      *)
(* with it.                                                                *)
(***************************************************************************)
HistoryLoaded ==
    /\ turn.user_id = Some(USER_ID)
    /\ turn.pc \in {"load_context", "load_patterns", "derive_state", "enforce_tone",
                    "build_prompt", "build_messages"}

EndsWithOwnMessage(messages) ==
    /\ messages # << >>
    /\ messages[Len(messages)].role = "user"
    /\ messages[Len(messages)].content = turn.request.message

C27_HistoryEndsWithTheTurnsOwnMessage ==
    /\ HistoryLoaded => EndsWithOwnMessage(turn.recent_messages)
    /\ StoredCalmTurnDone =>
          \E i \in 1..Len(turn.gpt_calls) : EndsWithOwnMessage(turn.gpt_calls[i].messages)

(***************************************************************************)
(* C28: after any sequence of stored-user turns, whether they returned a   *)
(* reply or failed, saved messages come in pairs: between two turns every  *)
(* saved user message is followed by a saved assistant message with the    *)
(* same session id.                                                        *)
(***************************************************************************)
BetweenTurns == turn.pc = "idle"

C28_SavedMessagesComeInPairs ==
    BetweenTurns =>
        \A i \in 1..Len(messages_table) :
            messages_table[i].role = "user" =>
                /\ i < Len(messages_table)
                /\ messages_table[i + 1].role = "assistant"
                /\ messages_table[i + 1].session_id = messages_table[i].session_id

(***************************************************************************)
(* C29: the two validate_response definitions, the one of                  *)
(* utils/response_validator.py that main.py imports and the one main.py    *)
(* defines later and the chat turn calls, return the same valid/invalid    *)
(* verdict for every reply.                                                *)
(***************************************************************************)
C29_BothValidatorsGiveTheSameVerdict ==
    Validated => turn.chat_verdict[1] = turn.module_verdict[1]

(***************************************************************************)
(* C30: after record_strict_raw_usage has run for a user on a calendar     *)
(* day, can_use_strict_raw answers not-allowed to every check of that day  *)
(* and allowed to every check of a later day until the next record;        *)
(* strict_raw_count_today never exceeds 1; and when the cooldown read      *)
(* fails, can_use_strict_raw answers allowed.                              *)
(***************************************************************************)
Checked == turn.pc = "cooldown" /\ ~IsNone(turn.last_check)

====
